---- MODULE Spec2Model ----
(***************************************************************************)
(* JSON Schema -> AST -> TypeScript pipeline of mcp-to-typescript:         *)
(* the parser (schema/parser.ts), the generator (schema/generator.ts) and  *)
(* the entry points of src/index.ts; the tool signatures of                *)
(* generator/tool-types.ts and the sandbox of agent/code-execution-tool.ts.*)
(*                                                                         *)
(* A JavaScript value is a record tagged by j; an AST node is a record     *)
(* tagged by kind; a thrown exception is the pseudo node of kind "throw".  *)
(* A text is a sequence of pieces whose concatenation is the string.       *)
(***************************************************************************)
EXTENDS Integers, Sequences, FiniteSets, TLC

VARIABLES
  input,        \* the value the caller passes as schema
  options,      \* the options object (or the type name) of the call
  pc,           \* "idle" before the call, "done" after it
  op,           \* the entry point called
  outcome,      \* result: what the call returned or threw;
                \* parserCalls: how often the entry point called parseSchema
  history,      \* the earlier calls of the parser on the schema the caller holds;
                \* of a sandbox: its tool invocations and what became of them, in order
  toolCalls,    \* sandbox.toolCalls: the records of the tool calls
  pendingPromises, \* sandbox.pendingPromises: the tracked promises, by call
  logs,         \* sandbox.logs
  now,          \* Date.now()
  inflight,     \* the asynchronous tool calls that have not settled yet
  execution,    \* the execution in progress: the code, its position, what it waits for
  results       \* what the executions returned, as the caller saw it on return

\* the sandbox created by createToolSandbox and the executions on it
sandbox == <<toolCalls, pendingPromises, logs, now, inflight, execution, results>>

vars == <<input, options, pc, op, outcome, history,
          toolCalls, pendingPromises, logs, now, inflight, execution, results>>

(***************************************************************************)
(* Bounds of the model.                                                    *)
(***************************************************************************)
\* longest list given to allOf / oneOf / anyOf / items / type
MaxList == 2

\* how often a caller parses the schema it holds
MaxCalls == 3

\* longest list of tools given to generateToolTypes
MaxTools == 2

(***************************************************************************)
(* JavaScript values.                                                      *)
(***************************************************************************)
Undef == [j |-> "undefined"]

Null == [j |-> "null"]

Bool(b) == [j |-> "boolean", b |-> b]

Num(n) == [j |-> "number", n |-> n]

Str(s) == [j |-> "string", s |-> s]

Arr(a) == [j |-> "array", a |-> a]

\* an object: its entries <<k, v>> in the order the literal declares them
Obj(o) == [j |-> "object", o |-> o]

Entry(k, v) == [k |-> k, v |-> v]

EmptyObj == Obj(<<>>)

\* ToBoolean: the truthiness `if (x)`, `!x` and `||` test
Truthy(x) ==
  CASE x.j = "undefined" -> FALSE
    [] x.j = "null" -> FALSE
    [] x.j = "boolean" -> x.b
    [] x.j = "number" -> x.n # 0
    [] x.j = "string" -> x.s # ""
    [] OTHER -> TRUE

\* typeof x
TypeOf(x) ==
  CASE x.j = "null" -> "object"
    [] x.j = "array" -> "object"
    [] OTHER -> x.j

IsArray(x) == x.j = "array"

\* a property read x.k throws on null and undefined only
CanReadProperties(x) == x.j \notin {"null", "undefined"}

\* x.k for a keyword k: own entry of an object, undefined on every other value
\* (no keyword of the parser names a member of String, Number, Boolean or Array)
Get(x, k) ==
  IF x.j = "object" /\ \E i \in 1..Len(x.o) : x.o[i].k = k
    THEN x.o[CHOOSE i \in 1..Len(x.o) : x.o[i].k = k].v
    ELSE Undef

\* { ...x, k: v }
Put(x, k, v) ==
  IF \E i \in 1..Len(x.o) : x.o[i].k = k
    THEN Obj([i \in 1..Len(x.o) |-> IF x.o[i].k = k THEN Entry(k, v) ELSE x.o[i]])
    ELSE Obj(Append(x.o, Entry(k, v)))

Digit(d) ==
  CASE d = 0 -> "0" [] d = 1 -> "1" [] d = 2 -> "2" [] d = 3 -> "3" [] d = 4 -> "4"
    [] d = 5 -> "5" [] d = 6 -> "6" [] d = 7 -> "7" [] d = 8 -> "8" [] d = 9 -> "9"

Digits == {Digit(d) : d \in 0..9}

\* the value of a decimal digit
DigitValue(c) ==
  CASE c = "0" -> 0 [] c = "1" -> 1 [] c = "2" -> 2 [] c = "3" -> 3 [] c = "4" -> 4
    [] c = "5" -> 5 [] c = "6" -> 6 [] c = "7" -> 7 [] c = "8" -> 8 [] c = "9" -> 9

\* the number a string of decimal digits writes
DecimalValue(k) ==
  LET F[n \in 0..Len(k)] ==
        IF n = 0 THEN 0 ELSE 10 * F[n - 1] + DigitValue(SubSeq(k, n, n))
  IN F[Len(k)]

\* the array index a property key denotes, -1 when it denotes none: an index
\* is the canonical decimal numeral of an integer below 2^32 - 1 (the keys
\* used here have at most nine digits, all of them below that limit)
ArrayIndex(k) ==
  IF /\ Len(k) \in 1..9
     /\ \A i \in 1..Len(k) : SubSeq(k, i, i) \in Digits
     /\ (Len(k) = 1 \/ SubSeq(k, 1, 1) # "0")
    THEN DecimalValue(k)
    ELSE -1

RECURSIVE SortByIndex(_)
\* integer keys in ascending order
SortByIndex(es) ==
  IF Len(es) <= 1 THEN es
  ELSE LET m == CHOOSE i \in 1..Len(es) :
                  \A n \in 1..Len(es) : ArrayIndex(es[i].k) <= ArrayIndex(es[n].k)
           rest == [n \in 1..(Len(es) - 1) |-> IF n < m THEN es[n] ELSE es[n + 1]]
       IN <<es[m]>> \o SortByIndex(rest)

SelectEntries(es, Keep(_)) ==
  LET F[n \in 0..Len(es)] ==
        IF n = 0 THEN <<>>
        ELSE IF Keep(es[n]) THEN Append(F[n - 1], es[n]) ELSE F[n - 1]
  IN F[Len(es)]

\* own property order of an object: integer keys ascending, then string keys
\* in insertion order
OwnOrder(es) ==
  LET IsIndex(e) == ArrayIndex(e.k) >= 0
      IsName(e) == ArrayIndex(e.k) < 0
  IN SortByIndex(SelectEntries(es, IsIndex)) \o SelectEntries(es, IsName)

\* the property key of an array index
IndexKey(i) ==
  CASE i = 0 -> "0"
    [] i = 1 -> "1"
    [] i = 2 -> "2"
    [] i = 3 -> "3"

\* Object.entries(x) of an object, an array, a number or a boolean
ObjectEntries(x) ==
  CASE x.j = "object" -> OwnOrder(x.o)
    [] x.j = "array" -> [i \in 1..Len(x.a) |-> Entry(IndexKey(i - 1), x.a[i])]
    [] x.j \in {"number", "boolean"} -> <<>>

\* String(x) of a template literal (the values a type keyword takes here)
TemplateString(x) ==
  CASE x.j = "string" -> x.s
    [] x.j = "null" -> "null"
    [] x.j = "undefined" -> "undefined"
    [] x.j = "boolean" -> IF x.b THEN "true" ELSE "false"

(***************************************************************************)
(* AST nodes (schema/ast.ts) and thrown errors (schema/errors.ts).         *)
(***************************************************************************)
PrimitiveNode(t) == [kind |-> "primitive", type |-> t]

ObjectNode(props, additional) ==
  [kind |-> "object", properties |-> props, additionalProperties |-> additional]

ArrayNode(items) == [kind |-> "array", items |-> items]

TupleNode(items) == [kind |-> "tuple", items |-> items]

UnionNode(types) == [kind |-> "union", types |-> types]

IntersectionNode(types) == [kind |-> "intersection", types |-> types]

EnumNode(values) == [kind |-> "enum", values |-> values]

ConstNode(value) == [kind |-> "const", value |-> value]

LiteralNode(value) == [kind |-> "literal", value |-> value]

AnyNode == [kind |-> "any"]

NeverNode == [kind |-> "never"]

PropertyDefinition(type, required) == [type |-> type, required |-> required]

ParserError(message) == [kind |-> "throw", name |-> "ParserError", message |-> message]

\* the runtime's own exception: a property read on null, a call of a missing method
TypeError(message) == [kind |-> "throw", name |-> "TypeError", message |-> message]

IsThrow(r) == r.kind = "throw"

\* the exception a left-to-right evaluation of rs raises, if any
HasThrow(rs) == \E i \in 1..Len(rs) : IsThrow(rs[i])

FirstThrow(rs) == rs[CHOOSE i \in 1..Len(rs) :
                        IsThrow(rs[i]) /\ \A n \in 1..(i - 1) : ~IsThrow(rs[n])]

(***************************************************************************)
(* The parser (schema/parser.ts).                                          *)
(***************************************************************************)
RECURSIVE parseSchema(_), parseSchemaWithoutNullable(_), parseType(_),
          parseTypeSwitch(_), parseObject(_), parseArray(_)

\* xs.map(parseSchema); a value without a map method raises TypeError
MapParseSchema(xs) ==
  IF ~IsArray(xs) THEN TypeError(<<"map is not a function">>)
  ELSE LET rs == [i \in 1..Len(xs.a) |-> parseSchema(xs.a[i])]
       IN IF HasThrow(rs) THEN FirstThrow(rs) ELSE [kind |-> "mapped", nodes |-> rs]

\* parseArray taking an empty items list for missing items
parseArrayEmptyAsMissing(schema) ==
  LET items == Get(schema, "items")
  IN IF ~Truthy(items) \/ (IsArray(items) /\ Len(items.a) = 0) THEN ArrayNode(AnyNode)
     ELSE IF IsArray(items)
       THEN LET parsed == MapParseSchema(items)
            IN IF IsThrow(parsed) THEN parsed ELSE TupleNode(parsed.nodes)
       ELSE LET node == parseSchema(items)
            IN IF IsThrow(node) THEN node ELSE ArrayNode(node)

parseArray(schema) ==
  LET items == Get(schema, "items")
  IN IF ~Truthy(items) THEN ArrayNode(AnyNode)
     ELSE IF IsArray(items)
       THEN LET parsed == MapParseSchema(items)
            IN IF IsThrow(parsed) THEN parsed ELSE TupleNode(parsed.nodes)
       ELSE LET node == parseSchema(items)
            IN IF IsThrow(node) THEN node ELSE ArrayNode(node)

\* RequiredFields keeping the first name of the list only
RequiredFieldsFirstOnly(schema) ==
  LET required == Get(schema, "required")
  IN IF ~Truthy(required) THEN [kind |-> "set", members |-> {}]
     ELSE CASE IsArray(required) ->
                 [kind |-> "set", members |-> {required.a[i] : i \in 1..Len(required.a) \cap {1}}]
            [] required.j \in {"number", "boolean", "object"} ->
                 TypeError(<<"required is not iterable">>)

\* new Set(schema.required || []): the members of a list, or TypeError when
\* the value is a number, a boolean or an object, none of them iterable
RequiredFields(schema) ==
  LET required == Get(schema, "required")
  IN IF ~Truthy(required) THEN [kind |-> "set", members |-> {}]
     ELSE CASE IsArray(required) ->
                 [kind |-> "set", members |-> {required.a[i] : i \in 1..Len(required.a)}]
            [] required.j \in {"number", "boolean", "object"} ->
                 TypeError(<<"required is not iterable">>)

parseObject(schema) ==
  LET requiredFields == RequiredFields(schema)
      props == Get(schema, "properties")
      entries == IF Truthy(props) THEN ObjectEntries(props) ELSE <<>>
      parsed == [i \in 1..Len(entries) |-> parseSchema(entries[i].v)]
      additional == Get(schema, "additionalProperties")
      additionalProperties ==
        IF additional = Undef THEN Undef
        ELSE IF TypeOf(additional) = "boolean" THEN additional
        ELSE parseSchema(additional)
  IN IF IsThrow(requiredFields) THEN requiredFields
     ELSE IF HasThrow(parsed) THEN FirstThrow(parsed)
     ELSE IF additionalProperties # Undef /\ TypeOf(additional) # "boolean"
             /\ IsThrow(additionalProperties) THEN additionalProperties
     ELSE ObjectNode(
            OwnOrder([i \in 1..Len(entries) |->
               Entry(entries[i].k,
                     PropertyDefinition(parsed[i],
                                        Str(entries[i].k) \in requiredFields.members))]),
            additionalProperties)

\* parseTypeSwitch with an unknown tag degrading to any instead of throwing
parseTypeSwitchLenient(schema) ==
  LET type == Get(schema, "type")
  IN IF type \in {Str("string"), Str("number"), Str("boolean"), Str("null")}
       THEN PrimitiveNode(type.s)
     ELSE IF type = Str("integer") THEN PrimitiveNode("number")
     ELSE IF type = Str("object") THEN parseObject(schema)
     ELSE IF type = Str("array") THEN parseArray(schema)
     ELSE AnyNode

\* parseTypeSwitch keeping integer as a primitive of its own
parseTypeSwitchKeepsInteger(schema) ==
  LET type == Get(schema, "type")
  IN IF type \in {Str("string"), Str("number"), Str("boolean"), Str("null"), Str("integer")}
       THEN PrimitiveNode(type.s)
     ELSE IF type = Str("object") THEN parseObject(schema)
     ELSE IF type = Str("array") THEN parseArray(schema)
     ELSE ParserError(<<"Unknown type: ", TemplateString(type)>>)

\* the switch of parseType over a type that is no list
parseTypeSwitch(schema) ==
  LET type == Get(schema, "type")
  IN IF type \in {Str("string"), Str("number"), Str("boolean"), Str("null")}
       THEN PrimitiveNode(type.s)
     ELSE IF type = Str("integer") THEN PrimitiveNode("number")
     ELSE IF type = Str("object") THEN parseObject(schema)
     ELSE IF type = Str("array") THEN parseArray(schema)
     ELSE ParserError(<<"Unknown type: ", TemplateString(type)>>)

\* parseType parsing each tag of a list alone, without the schema's other keywords
parseTypeWithoutSpread(schema) ==
  LET type == Get(schema, "type")
      only(t) == Obj(<<Entry("type", t)>>)
  IN IF IsArray(type)
       THEN IF Len(type.a) = 0 THEN NeverNode
            ELSE IF Len(type.a) = 1 /\ Truthy(type.a[1])
              THEN parseType(only(type.a[1]))
            ELSE LET types == [i \in 1..Len(type.a) |-> parseType(only(type.a[i]))]
                 IN IF HasThrow(types) THEN FirstThrow(types) ELSE UnionNode(types)
     ELSE parseTypeSwitch(schema)

parseType(schema) ==
  LET type == Get(schema, "type")
  IN IF IsArray(type)
       THEN IF Len(type.a) = 0 THEN NeverNode
            ELSE IF Len(type.a) = 1 /\ Truthy(type.a[1])
              THEN parseType(Put(schema, "type", type.a[1]))
            ELSE LET types == [i \in 1..Len(type.a) |->
                                 parseType(Put(schema, "type", type.a[i]))]
                 IN IF HasThrow(types) THEN FirstThrow(types) ELSE UnionNode(types)
     ELSE parseTypeSwitch(schema)

\* Combine wrapping a single member as well
CombineAlways(kind, types) == [kind |-> kind, types |-> types]

\* the node of a combinator over the parsed members: a single member is
\* returned directly, any other number is wrapped
Combine(kind, types) ==
  IF Len(types) = 1 THEN types[1] ELSE [kind |-> kind, types |-> types]

\* schema.oneOf || schema.anyOf || []
UnionSchemas(schema) ==
  IF Truthy(Get(schema, "oneOf")) THEN Get(schema, "oneOf")
  ELSE IF Truthy(Get(schema, "anyOf")) THEN Get(schema, "anyOf")
  ELSE Arr(<<>>)

\* parseSchemaWithoutNullable with the type tested before enum and the combinators
parseSchemaWithoutNullableTypeFirst(schema) ==
  IF ~CanReadProperties(schema)
    THEN TypeError(<<"Cannot read properties of ", TemplateString(schema)>>)
  ELSE IF Get(schema, "const") # Undef THEN ConstNode(Get(schema, "const"))
  ELSE IF Truthy(Get(schema, "type")) THEN parseType(schema)
  ELSE IF Truthy(Get(schema, "enum")) THEN EnumNode(Get(schema, "enum"))
  ELSE IF Truthy(Get(schema, "allOf"))
    THEN LET types == MapParseSchema(Get(schema, "allOf"))
         IN IF IsThrow(types) THEN types ELSE Combine("intersection", types.nodes)
  ELSE IF Truthy(Get(schema, "oneOf")) \/ Truthy(Get(schema, "anyOf"))
    THEN LET types == MapParseSchema(UnionSchemas(schema))
         IN IF IsThrow(types) THEN types ELSE Combine("union", types.nodes)
  ELSE AnyNode

parseSchemaWithoutNullable(schema) ==
  IF ~CanReadProperties(schema)
    THEN TypeError(<<"Cannot read properties of ", TemplateString(schema)>>)
  ELSE IF Get(schema, "const") # Undef THEN ConstNode(Get(schema, "const"))
  ELSE IF Truthy(Get(schema, "enum")) THEN EnumNode(Get(schema, "enum"))
  ELSE IF Truthy(Get(schema, "allOf"))
    THEN LET types == MapParseSchema(Get(schema, "allOf"))
         IN IF IsThrow(types) THEN types ELSE Combine("intersection", types.nodes)
  ELSE IF Truthy(Get(schema, "oneOf")) \/ Truthy(Get(schema, "anyOf"))
    THEN LET types == MapParseSchema(UnionSchemas(schema))
         IN IF IsThrow(types) THEN types ELSE Combine("union", types.nodes)
  ELSE IF Truthy(Get(schema, "type")) THEN parseType(schema)
  ELSE AnyNode

\* parseSchema wrapping whenever the nullable keyword is given, whatever its value
parseSchemaAnyNullable(schema) ==
  LET node == parseSchemaWithoutNullable(schema)
  IN IF IsThrow(node) THEN node
     ELSE IF Get(schema, "nullable") # Undef
       THEN UnionNode(<<node, PrimitiveNode("null")>>)
     ELSE node

parseSchema(schema) ==
  LET node == parseSchemaWithoutNullable(schema)
  IN IF IsThrow(node) THEN node
     ELSE IF Get(schema, "nullable") = Bool(TRUE)
       THEN UnionNode(<<node, PrimitiveNode("null")>>)
     ELSE node

(***************************************************************************)
(* The generator (schema/generator.ts).  A text is a sequence of non-empty *)
(* pieces; the line break is the piece "\n".                               *)
(***************************************************************************)
INDENT == <<"  ">>

RECURSIVE Repeat(_, _)
\* s.repeat(n)
Repeat(s, n) == IF n <= 0 THEN <<>> ELSE s \o Repeat(s, n - 1)

RECURSIVE Join(_, _)
\* parts.join(sep)
Join(parts, sep) ==
  IF Len(parts) = 0 THEN <<>>
  ELSE IF Len(parts) = 1 THEN parts[1]
  ELSE parts[1] \o sep \o Join(Tail(parts), sep)

\* text.includes(piece)
Includes(text, piece) == \E i \in 1..Len(text) : text[i] = piece

RECURSIVE Decimal(_)
\* the decimal digits of a natural number
Decimal(n) == IF n < 10 THEN <<Digit(n)>> ELSE Decimal(n \div 10) \o <<Digit(n % 10)>>

\* one character inside the string literal JSON.stringify writes: the quote
\* and the backslash are escaped by a backslash
EscapedChar(c) ==
  CASE c = "\"" -> "\\\""
    [] c = "\\" -> "\\\\"
    [] OTHER -> c

\* the body of the string literal JSON.stringify writes for s
Escaped(s) ==
  LET F[n \in 0..Len(s)] ==
        IF n = 0 THEN "" ELSE F[n - 1] \o EscapedChar(SubSeq(s, n, n))
  IN F[Len(s)]

\* JSON.stringify(v) of a scalar
JSONStringify(v) ==
  CASE v.j = "string" -> IF v.s = "" THEN <<"\"", "\"">> ELSE <<"\"", Escaped(v.s), "\"">>
    [] v.j = "number" -> Decimal(v.n)
    [] v.j = "boolean" -> IF v.b THEN <<"true">> ELSE <<"false">>
    [] v.j = "null" -> <<"null">>

Lower == {"a", "b", "c", "d", "e", "f", "g", "h", "i", "j", "k", "l", "m",
          "n", "o", "p", "q", "r", "s", "t", "u", "v", "w", "x", "y", "z"}

Upper == {"A", "B", "C", "D", "E", "F", "G", "H", "I", "J", "K", "L", "M",
          "N", "O", "P", "Q", "R", "S", "T", "U", "V", "W", "X", "Y", "Z"}

\* the characters that open an identifier, and those that continue it
IdentifierStart == Lower \cup Upper \cup {"_", "$"}

IdentifierPart == IdentifierStart \cup Digits

\* IsIdentifier with the first character tested like the others, digits included
IsIdentifierDigitFirst(key) ==
  /\ Len(key) >= 1
  /\ \A i \in 1..Len(key) : SubSeq(key, i, i) \in IdentifierPart

\* /^[a-zA-Z_$][a-zA-Z0-9_$]*$/.test(key)
IsIdentifier(key) ==
  /\ Len(key) >= 1
  /\ SubSeq(key, 1, 1) \in IdentifierStart
  /\ \A i \in 2..Len(key) : SubSeq(key, i, i) \in IdentifierPart

RECURSIVE generateNode(_, _)

\* generateUnion putting every member that spans several lines in parentheses
generateUnionWrapsMultiline(types, indent) ==
  IF Len(types) = 0 THEN <<"never">>
  ELSE IF Len(types) = 1 THEN generateNode(types[1], indent)
  ELSE LET parts == [i \in 1..Len(types) |->
                       LET generated == generateNode(types[i], indent)
                       IN IF Includes(generated, "\n")
                            THEN <<"(">> \o generated \o <<")">>
                            ELSE generated]
       IN Join(parts, <<" | ">>)

generateUnion(types, indent) ==
  IF Len(types) = 0 THEN <<"never">>
  ELSE IF Len(types) = 1 THEN generateNode(types[1], indent)
  ELSE LET allSimple == \A i \in 1..Len(types) :
                          types[i].kind \in {"primitive", "literal", "const", "any", "never"}
           parts == [i \in 1..Len(types) |->
                       LET generated == generateNode(types[i], indent)
                       IN IF Includes(generated, "\n") /\ types[i].kind = "object"
                            THEN <<"(">> \o generated \o <<")">>
                            ELSE generated]
       IN IF allSimple
            THEN Join([i \in 1..Len(types) |-> generateNode(types[i], indent)], <<" | ">>)
            ELSE Join(parts, <<" | ">>)

\* generateIntersection leaving a Union member without parentheses
generateIntersectionBareUnion(types, indent) ==
  IF Len(types) = 0 THEN <<"never">>
  ELSE IF Len(types) = 1 THEN generateNode(types[1], indent)
  ELSE LET parts == [i \in 1..Len(types) |->
                       LET generated == generateNode(types[i], indent)
                       IN IF Includes(generated, "\n") /\ types[i].kind = "object"
                            THEN <<"(">> \o generated \o <<")">>
                            ELSE generated]
       IN Join(parts, <<" & ">>)

generateIntersection(types, indent) ==
  IF Len(types) = 0 THEN <<"never">>
  ELSE IF Len(types) = 1 THEN generateNode(types[1], indent)
  ELSE LET parts == [i \in 1..Len(types) |->
                       LET generated == generateNode(types[i], indent)
                       IN IF types[i].kind = "union"
                             \/ (Includes(generated, "\n") /\ types[i].kind = "object")
                            THEN <<"(">> \o generated \o <<")">>
                            ELSE generated]
       IN Join(parts, <<" & ">>)

\* generateArray leaving an enum element without parentheses
generateArrayBareEnum(items, indent) ==
  LET itemType == generateNode(items, indent)
  IN IF items.kind \in {"union", "intersection"}
       THEN <<"(">> \o itemType \o <<")">> \o <<"[]">>
     ELSE itemType \o <<"[]">>

generateArray(items, indent) ==
  LET itemType == generateNode(items, indent)
  IN IF items.kind \in {"primitive", "any", "never", "literal", "const"}
       THEN itemType \o <<"[]">>
     ELSE IF items.kind \in {"union", "intersection", "enum"}
       THEN <<"(">> \o itemType \o <<")">> \o <<"[]">>
     ELSE itemType \o <<"[]">>

\* generateTuple writing the empty tuple like an empty array of any
generateTupleEmptyAsArray(items, indent) ==
  IF Len(items) = 0 THEN <<"any[]">>
  ELSE LET elements == [i \in 1..Len(items) |-> generateNode(items[i], indent)]
       IN <<"[">> \o Join(elements, <<", ">>) \o <<"]">>

generateTuple(items, indent) ==
  IF Len(items) = 0 THEN <<"[]">>
  ELSE LET elements == [i \in 1..Len(items) |-> generateNode(items[i], indent)]
       IN <<"[">> \o Join(elements, <<", ">>) \o <<"]">>

\* HasAdditional counting every policy that is given, false included
HasAdditionalDefined(additional) == additional # Undef

\* !node.additionalProperties: undefined and false are falsy, true and a node are not
HasAdditional(additional) ==
  IF "kind" \in DOMAIN additional THEN TRUE ELSE Truthy(additional)

\* PropertyLine writing the type of the property at the level of its record
PropertyLineFlat(e, indent) ==
  LET nextIndent == Repeat(INDENT, indent + 1)
      optional == IF e.v.required THEN <<>> ELSE <<"?">>
      propType == generateNode(e.v.type, indent)
      safeKey == IF IsIdentifier(e.k) THEN <<e.k>> ELSE JSONStringify(Str(e.k))
  IN nextIndent \o safeKey \o optional \o <<": ">> \o propType \o <<";">>

\* the line of one property: key, optional marker, type
PropertyLine(e, indent) ==
  LET nextIndent == Repeat(INDENT, indent + 1)
      optional == IF e.v.required THEN <<>> ELSE <<"?">>
      propType == generateNode(e.v.type, indent + 1)
      safeKey == IF IsIdentifier(e.k) THEN <<e.k>> ELSE JSONStringify(Str(e.k))
  IN nextIndent \o safeKey \o optional \o <<": ">> \o propType \o <<";">>

\* AdditionalLines writing the any-valued signature for a typed policy as well
AdditionalLinesUntyped(additional, indent) ==
  LET nextIndent == Repeat(INDENT, indent + 1)
  IN IF additional = Undef THEN <<>>
     ELSE IF additional = Bool(FALSE) THEN <<>>
     ELSE << nextIndent \o <<"[key: string]: any;">> >>

\* the index-signature lines of the additional properties: none or one
AdditionalLines(additional, indent) ==
  LET nextIndent == Repeat(INDENT, indent + 1)
  IN IF additional = Undef THEN <<>>
     ELSE IF additional = Bool(FALSE) THEN <<>>
     ELSE IF additional = Bool(TRUE)
       THEN << nextIndent \o <<"[key: string]: any;">> >>
     ELSE << nextIndent \o <<"[key: string]: ">>
               \o generateNode(additional, indent + 1) \o <<";">> >>

generateObject(node, indent) ==
  LET entries == node.properties
      currentIndent == Repeat(INDENT, indent)
      lines == << <<"{">> >> \o [i \in 1..Len(entries) |-> PropertyLine(entries[i], indent)]
                 \o AdditionalLines(node.additionalProperties, indent)
                 \o << currentIndent \o <<"}">> >>
  IN IF Len(entries) = 0 /\ ~HasAdditional(node.additionalProperties) THEN <<"{}">>
     ELSE Join(lines, <<"\n">>)

generateNode(node, indent) ==
  CASE node.kind = "primitive" -> <<node.type>>
    [] node.kind = "any" -> <<"any">>
    [] node.kind = "never" -> <<"never">>
    [] node.kind = "const" -> JSONStringify(node.value)
    [] node.kind = "literal" -> JSONStringify(node.value)
    [] node.kind = "enum" ->
         Join([i \in 1..Len(node.values.a) |-> JSONStringify(node.values.a[i])], <<" | ">>)
    [] node.kind = "union" -> generateUnion(node.types, indent)
    [] node.kind = "intersection" -> generateIntersection(node.types, indent)
    [] node.kind = "array" -> generateArray(node.items, indent)
    [] node.kind = "tuple" -> generateTuple(node.items, indent)
    [] node.kind = "object" -> generateObject(node, indent)

\* an option with its destructuring default, which replaces undefined only
OptionOr(opts, k, default) == IF Get(opts, k) = Undef THEN default ELSE Get(opts, k)

\* generateTypeScript preferring the alias form only when it is asked for
generateTypeScriptRecordByDefault(node, opts) ==
  LET typeName == Get(opts, "typeName")
      useTypeAlias == OptionOr(opts, "useTypeAlias", Bool(FALSE))
      indent == OptionOr(opts, "indent", Num(0))
      alias == Truthy(useTypeAlias) \/ node.kind # "object"
      keyword == IF alias THEN "type" ELSE "interface"
      assignment == IF alias THEN " = " ELSE " "
      Declared(typeDefinition) ==
        IF Truthy(typeName)
          THEN <<"export ", keyword, " ", typeName.s, assignment>>
                 \o typeDefinition \o <<";">>
          ELSE typeDefinition
  IN Declared(generateNode(node, indent.n))

generateTypeScript(node, opts) ==
  LET typeName == Get(opts, "typeName")
      useTypeAlias == OptionOr(opts, "useTypeAlias", Bool(TRUE))
      indent == OptionOr(opts, "indent", Num(0))
      alias == Truthy(useTypeAlias) \/ node.kind # "object"
      keyword == IF alias THEN "type" ELSE "interface"
      assignment == IF alias THEN " = " ELSE " "
      Declared(typeDefinition) ==
        IF Truthy(typeName)
          THEN <<"export ", keyword, " ", typeName.s, assignment>>
                 \o typeDefinition \o <<";">>
          ELSE typeDefinition
  IN Declared(generateNode(node, indent.n))

\* the exception of String.prototype.repeat for a negative count
RangeError(message) == [kind |-> "throw", name |-> "RangeError", message |-> message]

RECURSIVE RepeatRaises(_, _)
\* generateNode(node, indent) reaches INDENT.repeat with a negative count:
\* generateObject repeats INDENT indent and indent + 1 times before it writes
\* the lines of a record that is not written as {}
RepeatRaises(node, indent) ==
  CASE node.kind \in {"union", "intersection"} ->
         \E i \in 1..Len(node.types) : RepeatRaises(node.types[i], indent)
    [] node.kind = "array" -> RepeatRaises(node.items, indent)
    [] node.kind = "tuple" ->
         \E i \in 1..Len(node.items) : RepeatRaises(node.items[i], indent)
    [] node.kind = "object" ->
         IF Len(node.properties) = 0 /\ ~HasAdditional(node.additionalProperties) THEN FALSE
         ELSE \/ indent < 0
              \/ \E i \in 1..Len(node.properties) :
                    RepeatRaises(node.properties[i].v.type, indent + 1)
              \/ /\ "kind" \in DOMAIN node.additionalProperties
                 /\ RepeatRaises(node.additionalProperties, indent + 1)
    [] OTHER -> FALSE

RECURSIVE generateNodeCalls(_)
\* how many calls of generateNode the rendering of node makes, itself included
generateNodeCalls(node) ==
  LET Sum(f) ==
        LET F[n \in 0..Len(f)] == IF n = 0 THEN 0 ELSE F[n - 1] + f[n]
        IN F[Len(f)]
  IN CASE node.kind \in {"union", "intersection"} ->
            1 + Sum([i \in 1..Len(node.types) |-> generateNodeCalls(node.types[i])])
       [] node.kind = "array" -> 1 + generateNodeCalls(node.items)
       [] node.kind = "tuple" ->
            1 + Sum([i \in 1..Len(node.items) |-> generateNodeCalls(node.items[i])])
       [] node.kind = "object" ->
            IF Len(node.properties) = 0 /\ ~HasAdditional(node.additionalProperties) THEN 1
            ELSE 1 + Sum([i \in 1..Len(node.properties) |->
                            generateNodeCalls(node.properties[i].v.type)])
                   + (IF "kind" \in DOMAIN node.additionalProperties
                        THEN generateNodeCalls(node.additionalProperties) ELSE 0)
       [] OTHER -> 1

(***************************************************************************)
(* The entry points (src/index.ts).                                        *)
(***************************************************************************)
Return(value) == [kind |-> "return", value |-> value]

\* what a call of generateTypeScript returns or throws
generateTypeScriptRun(node, opts) ==
  IF RepeatRaises(node, OptionOr(opts, "indent", Num(0)).n)
    THEN RangeError(<<"Invalid count value: ">>)
    ELSE Return(generateTypeScript(node, opts))

\* the completion of a call of the parser: the exception, or the node returned
Completion(r) == IF IsThrow(r) THEN r ELSE Return(r)

\* a ConversionResult: { code } or { ast }
ConversionResult(code, ast) == [code |-> code, ast |-> ast]

Code(text) == [j |-> "text", text |-> text]

\* validateJSONSchema without the test for arrays
validateJSONSchemaArraysPass(x) ==
  IF x = Null \/ x = Undef
    THEN ParserError(<<"Schema cannot be null or undefined">>)
  ELSE IF TypeOf(x) # "object"
    THEN ParserError(<<"Schema must be an object, got ", TypeOf(x)>>)
  ELSE Undef

\* the exception validateJSONSchema throws, Undef when it returns
validateJSONSchema(x) ==
  IF x = Null \/ x = Undef
    THEN ParserError(<<"Schema cannot be null or undefined">>)
  ELSE IF TypeOf(x) # "object"
    THEN ParserError(<<"Schema must be an object, got ", TypeOf(x)>>)
  ELSE IF IsArray(x)
    THEN ParserError(<<"Schema must be an object, got ", "array">>)
  ELSE Undef

\* jsonSchemaToTypeScript generating the code whether or not the AST is asked for
jsonSchemaToTypeScriptRunBoth(schema, opts) ==
  LET invalid == validateJSONSchema(schema)
      Converted(ast) ==
        IF IsThrow(ast) THEN [result |-> ast, parserCalls |-> 1]
        ELSE [result |-> Return(ConversionResult(Code(generateTypeScript(ast, opts)),
                                                 IF Truthy(Get(opts, "returnAST")) THEN ast
                                                 ELSE Undef)),
              parserCalls |-> 1]
  IN IF invalid # Undef THEN [result |-> invalid, parserCalls |-> 0]
     ELSE Converted(parseSchema(schema))

\* what the call returns or throws, and how often it called parseSchema
jsonSchemaToTypeScriptRun(schema, opts) ==
  LET invalid == validateJSONSchema(schema)
      Converted(ast) ==
        IF IsThrow(ast) THEN [result |-> ast, parserCalls |-> 1]
        ELSE IF Truthy(Get(opts, "returnAST"))
          THEN [result |-> Return(ConversionResult(Undef, ast)), parserCalls |-> 1]
        ELSE [result |-> Return(ConversionResult(Code(generateTypeScript(ast, opts)), Undef)),
              parserCalls |-> 1]
  IN IF invalid # Undef THEN [result |-> invalid, parserCalls |-> 0]
     ELSE Converted(parseSchema(schema))

jsonSchemaToTypeScript(schema, opts) == jsonSchemaToTypeScriptRun(schema, opts).result

\* convert(schema, typeName): the code of the result, or "" when it has none
convertRun(schema, typeName) ==
  LET CodeOf(result) ==
        IF IsThrow(result) THEN result
        ELSE IF result.value.code = Undef \/ Len(result.value.code.text) = 0
          THEN Return(<<>>)
        ELSE Return(result.value.code.text)
      Outcome(run) == [result |-> CodeOf(run.result), parserCalls |-> run.parserCalls]
  IN Outcome(jsonSchemaToTypeScriptRun(schema, Obj(<<Entry("typeName", typeName)>>)))

convert(schema, typeName) == convertRun(schema, typeName).result

(***************************************************************************)
(* The inputs: schemas and options.                                        *)
(***************************************************************************)
SString == Obj(<<Entry("type", Str("string"))>>)

SNumber == Obj(<<Entry("type", Str("number"))>>)

SNullableInteger == Obj(<<Entry("type", Str("integer")), Entry("nullable", Bool(TRUE))>>)

SUser ==
  Obj(<<Entry("type", Str("object")),
        Entry("properties", Obj(<<Entry("id", SNumber), Entry("name", SString)>>)),
        Entry("required", Arr(<<Str("id")>>))>>)

\* an enum beside its type, as schemas usually write it
SEnum == Obj(<<Entry("type", Str("string")), Entry("enum", Arr(<<Str("a"), Str("b")>>))>>)

SChoice == Obj(<<Entry("oneOf", Arr(<<SString, SNumber>>))>>)

SBogus == Obj(<<Entry("type", Str("bogus"))>>)

\* the sub-schemas nested under allOf, oneOf, anyOf and items; the last three are
\* an unknown type, a null and a string where a schema is expected
Pool == <<SString, SNullableInteger, SUser, SEnum, SChoice, EmptyObj, SBogus, Null, Str("x")>>

\* the list of len members of Pool from start on, cyclically
Window(start, len) == [i \in 1..len |-> Pool[((start + i - 2) % Len(Pool)) + 1]]

Lists == {Arr(Window(start, len)) : start \in 1..Len(Pool), len \in 0..MaxList}

TypeTags == {"string", "number", "integer", "boolean", "null", "object", "array", "bogus", ""}

ListTags == {"string", "integer", "null", "object", "array", "bogus", ""}

TagLists == UNION {[1..n -> ListTags] : n \in 0..MaxList}

TypeValues == {Null} \cup {Str(t) : t \in TypeTags}
                \cup {Arr([i \in 1..Len(l) |-> Str(l[i])]) : l \in TagLists}

ResolutionKeywords == <<"const", "enum", "allOf", "oneOf", "anyOf", "type">>

\* every value a resolution keyword takes alone
KeywordValues(k) ==
  CASE k = "const" -> {Null, Str("a"), Str("a\"b"), Num(12), Bool(FALSE)}
    [] k = "enum" -> {Null, Arr(<<>>), Arr(<<Str("a"), Str("b")>>),
                      Arr(<<Str("a"), Num(1), Bool(TRUE), Str("a")>>)}
    [] k \in {"allOf", "oneOf", "anyOf"} -> Lists \cup {Null}
    [] k = "type" -> TypeValues

\* the values a resolution keyword takes beside other keywords
SharedValues(k) ==
  CASE k = "const" -> {Undef, Null, Str("a")}
    [] k = "enum" -> {Undef, Null, Arr(<<Str("a"), Str("b")>>)}
    [] k = "allOf" -> {Undef, Arr(<<SString>>), Arr(<<SUser, SChoice>>)}
    [] k = "oneOf" -> {Undef, Arr(<<>>), Arr(<<SNullableInteger, SString>>)}
    [] k = "anyOf" -> {Undef, Arr(<<SEnum>>), Arr(<<SString, SBogus>>)}
    [] k = "type" -> {Undef, Str("bogus"), Str(""), Arr(<<Str("object"), Str("null")>>)}

NullableValues == {Undef, Bool(TRUE), Bool(FALSE)}

\* the object literal with the given entries, those of undefined value left out
Literal(es) == Obj(SelectEntries(es, LAMBDA e : e.v # Undef))

SingleKeywordSchemas ==
  {Literal(<<Entry(ResolutionKeywords[i], v), Entry("nullable", n)>>) :
     <<i, v, n>> \in UNION {{<<i, v, n>> : v \in KeywordValues(ResolutionKeywords[i]),
                                          n \in NullableValues} :
                               i \in 1..Len(ResolutionKeywords)}}

MixedKeywordSchemas ==
  {Literal(<<Entry("const", c), Entry("enum", e), Entry("allOf", a), Entry("oneOf", o),
             Entry("anyOf", y), Entry("type", t), Entry("nullable", n)>>) :
     <<c, e, a, o, y, t, n>> \in
        SharedValues("const") \X SharedValues("enum") \X SharedValues("allOf")
          \X SharedValues("oneOf") \X SharedValues("anyOf") \X SharedValues("type")
          \X {Undef, Bool(TRUE)}}

PropertiesValues ==
  {Undef, Null, EmptyObj,
   Obj(<<Entry("id", SNumber), Entry("name", SNullableInteger)>>),
   Obj(<<Entry("name", SString), Entry("a-b", SUser), Entry("1", SEnum)>>),
   Obj(<<Entry("id", SString), Entry("name", Null)>>),
   Obj(<<Entry("id", SBogus)>>)}

RequiredValues == {Undef, Arr(<<>>), Arr(<<Str("id")>>), Arr(<<Str("name"), Str("zz")>>), Num(5)}

AdditionalValues == {Undef, Bool(TRUE), Bool(FALSE), Null, SString, SUser, SBogus}

ObjectSchemas ==
  {Literal(<<Entry("type", t), Entry("properties", p), Entry("required", r),
             Entry("additionalProperties", a), Entry("items", i), Entry("nullable", n)>>) :
     <<t, p, r, a, i, n>> \in
        {Str("object"), Arr(<<Str("object")>>), Arr(<<Str("object"), Str("array")>>)}
          \X PropertiesValues \X RequiredValues \X AdditionalValues
          \X {Undef, Arr(<<SString, SUser>>)} \X {Undef, Bool(TRUE)}}

ItemsValues == {Null, Bool(TRUE), Undef} \cup {Pool[i] : i \in 1..Len(Pool)} \cup Lists

ArraySchemas ==
  {Literal(<<Entry("type", t), Entry("items", i), Entry("nullable", n)>>) :
     <<t, i, n>> \in {Str("array"), Arr(<<Str("array")>>), Arr(<<Str("array"), Str("null")>>)}
                       \X ItemsValues \X NullableValues}

\* what a caller may pass where a schema is expected and is no object
NonObjects == {Null, Undef, Str("not an object"), Num(42), Bool(TRUE), Bool(FALSE),
               Arr(<<>>), Arr(<<Num(1), Num(2)>>)}

Schemas == SingleKeywordSchemas \cup MixedKeywordSchemas \cup ObjectSchemas \cup ArraySchemas

Inputs == Schemas \cup NonObjects

TypeNames == {Undef, Str("User"), Str("")}

OptionValues ==
  {EmptyObj,
   Obj(<<Entry("typeName", Str("User"))>>),
   Obj(<<Entry("returnAST", Bool(TRUE))>>),
   Obj(<<Entry("typeName", Str("User")), Entry("returnAST", Bool(TRUE))>>),
   Obj(<<Entry("typeName", Str("User")), Entry("useTypeAlias", Bool(FALSE)),
         Entry("returnAST", Bool(FALSE))>>),
   Obj(<<Entry("indent", Num(1)), Entry("addComments", Bool(TRUE))>>)}

(***************************************************************************)
(* The state machine: a caller holds one input and makes one call.         *)
(***************************************************************************)
NoOutcome == [kind |-> "none"]

\* no sandbox takes part in a conversion
SandboxUnused ==
  /\ toolCalls = <<>>
  /\ pendingPromises = <<>>
  /\ logs = <<>>
  /\ now = 0
  /\ inflight = {}
  /\ execution = [phase |-> "none"]
  /\ results = <<>>

Init ==
  /\ input \in Inputs
  /\ options = EmptyObj
  /\ pc = "idle"
  /\ op = "none"
  /\ outcome = [result |-> NoOutcome, parserCalls |-> 0]
  /\ history = <<>>
  /\ SandboxUnused

\* parseSchema(input)
ParseSchema ==
  /\ pc = "idle"
  /\ pc' = "done"
  /\ op' = "parseSchema"
  /\ outcome' = [result |-> Completion(parseSchema(input)), parserCalls |-> 1]
  /\ UNCHANGED <<input, options, history, sandbox>>

\* convert(input, typeName)
Convert ==
  /\ pc = "idle"
  /\ \E typeName \in TypeNames :
       /\ options' = Obj(<<Entry("typeName", typeName)>>)
       /\ outcome' = convertRun(input, typeName)
  /\ pc' = "done"
  /\ op' = "convert"
  /\ UNCHANGED <<input, history, sandbox>>

\* jsonSchemaToTypeScript(input, opts)
JsonSchemaToTypeScript ==
  /\ pc = "idle"
  /\ \E opts \in OptionValues :
       /\ options' = opts
       /\ outcome' = jsonSchemaToTypeScriptRun(input, opts)
  /\ pc' = "done"
  /\ op' = "jsonSchemaToTypeScript"
  /\ UNCHANGED <<input, history, sandbox>>

Next == ParseSchema \/ Convert \/ JsonSchemaToTypeScript

Spec == Init /\ [][Next]_vars

(***************************************************************************)
(* Object schemas: a caller holds one object schema and makes one call.    *)
(***************************************************************************)
\* the property names declared together, in the order the schema writes them:
\* bare identifiers, names with a hyphen, a space or a quote, numerals, the
\* empty name
NameLists ==
  {<<>>,
   <<"id", "name">>,
   <<"my-key", "123">>,
   <<"name", "a-b", "1">>,
   <<"2", "b", "10", "a", "1">>,
   <<"_x", "$ref", "1a", "">>,
   <<"a\"b", "Z9", "a b", "01">>}

\* the schema of the i-th declared property
PropertySchemas == <<SNumber, SString, SUser, SNullableInteger, SEnum>>

Properties(names) ==
  Obj([i \in 1..Len(names) |->
         Entry(names[i], PropertySchemas[((i - 1) % Len(PropertySchemas)) + 1])])

\* the required lists given beside the names: none, the empty list, every
\* name, and the names at the odd places followed by a name not declared
RequiredLists(names) ==
  {Undef,
   Arr(<<>>),
   Arr([i \in 1..Len(names) |-> Str(names[i])]),
   Arr([i \in 1..((Len(names) + 1) \div 2) |-> Str(names[2 * i - 1])] \o <<Str("zz")>>)}

AdditionalSchemas == {Undef, Bool(TRUE), Bool(FALSE), SString, SUser, SNullableInteger, SChoice}

\* the object schemas: every list of names with every required list and
\* every additionalProperties; then the same names under a type list and as
\* nullable schemas; then the schemas without properties
ObjectInputs ==
  {Literal(<<Entry("type", Str("object")), Entry("properties", Properties(names)),
             Entry("required", r), Entry("additionalProperties", a)>>) :
     <<names, r, a>> \in
        UNION {{<<names, r, a>> : r \in RequiredLists(names), a \in AdditionalSchemas} :
                 names \in NameLists}}
    \cup {Literal(<<Entry("type", t), Entry("properties", Properties(names)),
                    Entry("additionalProperties", a), Entry("nullable", n)>>) :
            <<t, names, a, n>> \in
               {Str("object"), Arr(<<Str("object")>>)} \X NameLists \X {Undef, SUser}
                 \X {Undef, Bool(TRUE)}}
    \cup {Obj(<<Entry("type", Str("object"))>>),
          Obj(<<Entry("type", Str("object")), Entry("required", Arr(<<Str("id")>>))>>),
          Obj(<<Entry("type", Str("object")), Entry("additionalProperties", Bool(FALSE))>>)}

ObjectInit ==
  /\ input \in ObjectInputs
  /\ options = EmptyObj
  /\ pc = "idle"
  /\ op = "none"
  /\ outcome = [result |-> NoOutcome, parserCalls |-> 0]
  /\ history = <<>>
  /\ SandboxUnused

ObjectSpec == ObjectInit /\ [][Next]_vars

Range(f) == {f[i] : i \in DOMAIN f}

(***************************************************************************)
(* Trees: a caller holds one AST node and renders it once.                 *)
(***************************************************************************)
UserRecord ==
  ObjectNode(<<Entry("id", PropertyDefinition(PrimitiveNode("number"), TRUE)),
               Entry("name", PropertyDefinition(PrimitiveNode("string"), FALSE))>>, Undef)

\* the records without properties, one for each additional-entries policy
EmptyRecords ==
  {ObjectNode(<<>>, additional) :
     additional \in {Undef, Bool(FALSE), Bool(TRUE), PrimitiveNode("number"), UserRecord}}

Records ==
  EmptyRecords
    \cup {UserRecord,
          ObjectNode(<<Entry("a-b", PropertyDefinition(AnyNode, FALSE))>>, Bool(FALSE)),
          ObjectNode(<<Entry("id", PropertyDefinition(UserRecord, TRUE))>>, Bool(TRUE)),
          ObjectNode(<<Entry("x", PropertyDefinition(TupleNode(<<UserRecord>>), FALSE))>>,
                     ArrayNode(UserRecord))}

Enums == {EnumNode(Arr(<<>>)), EnumNode(Arr(<<Str("a")>>)),
          EnumNode(Arr(<<Str("a"), Num(1), Bool(TRUE)>>))}

Leaves == {PrimitiveNode("string"), PrimitiveNode("null"), AnyNode, NeverNode,
           LiteralNode(Str("a")), ConstNode(Num(12)), ConstNode(Null)}

\* the members of the lists of the first level
Members == <<PrimitiveNode("string"), PrimitiveNode("null"), ConstNode(Str("a")), AnyNode,
             UserRecord, ObjectNode(<<>>, Undef), ObjectNode(<<>>, Bool(TRUE)),
             EnumNode(Arr(<<Str("a"), Num(1)>>))>>

MemberLists == UNION {[1..n -> Range(Members)] : n \in 0..MaxList}

\* the nodes with a list of members or of items
ListNodes(lists) ==
  {UnionNode(l) : l \in lists} \cup {IntersectionNode(l) : l \in lists}
    \cup {TupleNode(l) : l \in lists}

\* the members of the lists of the second level: nodes that have members
Nested == <<UnionNode(<<PrimitiveNode("string"), PrimitiveNode("null")>>),
            UnionNode(<<UserRecord, PrimitiveNode("null")>>),
            PrimitiveNode("string"),
            UnionNode(<<>>),
            IntersectionNode(<<UserRecord, ObjectNode(<<>>, Bool(TRUE))>>),
            UnionNode(<<UserRecord>>),
            ArrayNode(UserRecord),
            TupleNode(<<PrimitiveNode("string"), UserRecord>>),
            IntersectionNode(<<>>),
            TupleNode(<<>>),
            UserRecord,
            ArrayNode(PrimitiveNode("string"))>>

\* the list of len members of Nested from start on, cyclically
NestedWindow(start, len) == [i \in 1..len |-> Nested[((start + i - 2) % Len(Nested)) + 1]]

NestedLists == {NestedWindow(start, len) : start \in 1..Len(Nested), len \in 1..MaxList}

\* the arrays the parser builds for an array of nullable items and for a
\* nullable array
NullableArraySchemas ==
  {Obj(<<Entry("type", Str("array")), Entry("items", items)>>) :
     items \in {SNullableInteger, Put(SUser, "nullable", Bool(TRUE))}}
    \cup {Obj(<<Entry("type", Str("array")), Entry("items", items),
                Entry("nullable", Bool(TRUE))>>) : items \in {SString, SUser, SChoice}}

Composites ==
  ListNodes(MemberLists) \cup ListNodes(NestedLists)
    \cup {parseSchema(schema) : schema \in NullableArraySchemas}

Trees ==
  Leaves \cup Records \cup Enums \cup Composites
    \cup {ArrayNode(e) : e \in Leaves \cup Records \cup Enums \cup Composites}

\* the options of a rendering
RenderOptions ==
  {EmptyObj,
   Obj(<<Entry("typeName", Str("User"))>>),
   Obj(<<Entry("typeName", Str("User")), Entry("useTypeAlias", Bool(TRUE))>>),
   Obj(<<Entry("typeName", Str("User")), Entry("useTypeAlias", Bool(FALSE))>>),
   Obj(<<Entry("useTypeAlias", Bool(FALSE))>>),
   Obj(<<Entry("typeName", Str("")), Entry("useTypeAlias", Bool(FALSE))>>),
   Obj(<<Entry("typeName", Str("T")), Entry("indent", Num(1))>>),
   Obj(<<Entry("indent", Num(2)), Entry("addComments", Bool(TRUE))>>),
   Obj(<<Entry("typeName", Str("User")), Entry("useTypeAlias", Bool(FALSE)),
         Entry("indent", Num(1))>>),
   Obj(<<Entry("indent", Num(-1))>>),
   Obj(<<Entry("typeName", Str("User")), Entry("indent", Num(-2))>>)}

RenderInit ==
  /\ input \in Trees
  /\ options = EmptyObj
  /\ pc = "idle"
  /\ op = "none"
  /\ outcome = [result |-> NoOutcome, parserCalls |-> 0]
  /\ history = <<>>
  /\ SandboxUnused

\* generateTypeScript(input, opts)
GenerateTypeScript ==
  /\ pc = "idle"
  /\ \E opts \in RenderOptions :
       /\ options' = opts
       /\ outcome' = [result |-> generateTypeScriptRun(input, opts), parserCalls |-> 0]
  /\ pc' = "done"
  /\ op' = "generateTypeScript"
  /\ UNCHANGED <<input, history, sandbox>>

RenderNext == GenerateTypeScript

RenderSpec == RenderInit /\ [][RenderNext]_vars

(***************************************************************************)
(* Repeated calls: a caller parses the schema it holds several times.      *)
(***************************************************************************)
\* parseSchemaLeaves with the tags of a type list assigned in place
\* (schema.type = t) instead of spread into a copy
parseSchemaLeavesExpanded(schema) ==
  IF CanReadProperties(schema) /\ IsArray(Get(schema, "type")) /\ Len(Get(schema, "type").a) > 0
    THEN Put(schema, "type", Get(schema, "type").a[Len(Get(schema, "type").a)])
    ELSE schema

\* the caller's schema after a call of parseSchema: the parser assigns to no
\* field of it, and a type list is expanded on copies, { ...schema, type: t }
parseSchemaLeaves(schema) == schema

RepeatInit ==
  /\ input \in Inputs
  /\ options = EmptyObj
  /\ pc = "idle"
  /\ op = "none"
  /\ outcome = [result |-> NoOutcome, parserCalls |-> 0]
  /\ history = <<>>
  /\ SandboxUnused

\* parseSchema(input), once more on the same object
ParseSchemaAgain ==
  /\ Len(history) < MaxCalls
  /\ pc' = "done"
  /\ op' = "parseSchema"
  /\ outcome' = [result |-> Completion(parseSchema(input)), parserCalls |-> 1]
  /\ input' = parseSchemaLeaves(input)
  /\ history' = Append(history, [schema |-> input, result |-> outcome'.result])
  /\ UNCHANGED <<options, sandbox>>

RepeatNext == ParseSchemaAgain

RepeatSpec == RepeatInit /\ [][RepeatNext]_vars

(***************************************************************************)
(* Tool signatures (generator/tool-types.ts).                              *)
(***************************************************************************)
\* a Tool, without its execute function
Tool(name, description, parameters) ==
  [name |-> name, description |-> description, parameters |-> parameters]

\* s.split("\n")
SplitLines(s) ==
  LET breaks == {i \in 1..Len(s) : SubSeq(s, i, i) = "\n"}
      before(i) == Cardinality({b \in breaks : b < i})
      first(k) == IF k = 1 THEN 1
                  ELSE 1 + (CHOOSE b \in breaks : before(b) = k - 2)
      last(k) == IF k = Cardinality(breaks) + 1 THEN Len(s)
                 ELSE (CHOOSE b \in breaks : before(b) = k - 1) - 1
  IN [k \in 1..(Cardinality(breaks) + 1) |-> SubSeq(s, first(k), last(k))]

\* the lines of the JSDoc comment that carry the description
DescriptionLines(description) ==
  LET lines == SplitLines(description)
  IN Join([k \in 1..Len(lines) |-> <<" * ", lines[k]>>], <<"\n">>)

\* the @param line of one property, or the TypeError of reading .description
\* of null or undefined
ParamDoc(e, required) ==
  IF ~CanReadProperties(e.v) THEN TypeError(<<"cannot read property description">>)
  ELSE Return(<<" * @param args.", e.k,
                IF Str(e.k) \in required.members THEN "" ELSE " (optional)",
                " - ",
                IF Truthy(Get(e.v, "description"))
                  THEN TemplateString(Get(e.v, "description")) ELSE "">>)

\* generateParamDocs(schema): the text, or the exception it throws
generateParamDocs(schema) ==
  IF ~CanReadProperties(schema) THEN TypeError(<<"cannot read property properties">>)
  ELSE IF ~Truthy(Get(schema, "properties")) THEN Return(<<>>)
  ELSE LET Documented(required, entries) ==
             LET docs == [i \in 1..Len(entries) |-> ParamDoc(entries[i], required)]
             IN IF IsThrow(required) THEN required
                ELSE IF HasThrow(docs) THEN FirstThrow(docs)
                ELSE IF Len(docs) > 0
                  THEN Return(Join([i \in 1..Len(docs) |-> docs[i].value], <<"\n">>)
                                \o <<"\n">>)
                ELSE Return(<<>>)
       IN Documented(RequiredFields(schema), ObjectEntries(Get(schema, "properties")))

\* generateToolSignature(tool): the block of one tool, or the exception
generateToolSignature(tool) ==
  LET ParamsType(ast) ==
        IF IsThrow(ast) THEN <<"any">> ELSE generateTypeScript(ast, EmptyObj)
      Signature(paramsType, paramDocs) ==
        IF IsThrow(paramDocs) THEN paramDocs
        ELSE Return(<<"/**", "\n">> \o DescriptionLines(tool.description) \o <<"\n">>
                      \o paramDocs.value
                      \o <<" */", "\n", "declare function ", tool.name, "(args: ">>
                      \o paramsType \o <<"): Promise<any>;">>)
  IN Signature(ParamsType(parseSchema(tool.parameters)), generateParamDocs(tool.parameters))

\* generateToolTypes(tools): the signatures joined by a blank line, or the
\* exception of the first tool whose signature throws
generateToolTypes(tools) ==
  LET Joined(signatures) ==
        IF HasThrow(signatures) THEN FirstThrow(signatures)
        ELSE Return(Join([i \in 1..Len(signatures) |-> signatures[i].value],
                         <<"\n", "\n">>))
  IN Joined([i \in 1..Len(tools) |-> generateToolSignature(tools[i])])

\* a parameter schema with a description
Described(schema, description) == Put(schema, "description", Str(description))

\* the tools of the tests, and tools whose parameter schema is invalid
ToolPool ==
  <<Tool("add", "Adds two numbers together",
         Obj(<<Entry("type", Str("object")),
               Entry("properties", Obj(<<Entry("a", Described(SNumber, "First number")),
                                         Entry("b", Described(SNumber, "Second number"))>>)),
               Entry("required", Arr(<<Str("a"), Str("b")>>))>>)),
    Tool("greet", "Returns a greeting message\nin two lines",
         Obj(<<Entry("type", Str("object")),
               Entry("properties", Obj(<<Entry("name", Described(SString, "Name to greet")),
                                         Entry("formal", Obj(<<Entry("type", Str("boolean"))>>))>>)),
               Entry("required", Arr(<<Str("name")>>))>>)),
    Tool("noParams", "Takes no parameters",
         Obj(<<Entry("type", Str("object")), Entry("properties", EmptyObj)>>)),
    Tool("anything", "", EmptyObj),
    Tool("bogus", "Has an unknown type", SBogus),
    Tool("nested", "Has a property of an unknown type",
         Obj(<<Entry("type", Str("object")),
               Entry("properties", Obj(<<Entry("id", SBogus), Entry("name", SString)>>))>>)),
    Tool("broken", "Has a property without a schema",
         Obj(<<Entry("type", Str("object")),
               Entry("properties", Obj(<<Entry("id", SBogus), Entry("name", Null)>>))>>)),
    Tool("members", "Has a member without a schema", Obj(<<Entry("allOf", Arr(<<Null>>))>>))>>

ToolLists == UNION {[1..n -> Range(ToolPool)] : n \in 0..MaxTools}

ToolTypesInit ==
  /\ input \in ToolLists
  /\ options = EmptyObj
  /\ pc = "idle"
  /\ op = "none"
  /\ outcome = [result |-> NoOutcome, parserCalls |-> 0]
  /\ history = <<>>
  /\ SandboxUnused

\* generateToolTypes(input)
GenerateToolTypes ==
  /\ pc = "idle"
  /\ pc' = "done"
  /\ op' = "generateToolTypes"
  /\ outcome' = [result |-> generateToolTypes(input), parserCalls |-> Len(input)]
  /\ UNCHANGED <<input, options, history, sandbox>>

ToolTypesNext == GenerateToolTypes

ToolTypesSpec == ToolTypesInit /\ [][ToolTypesNext]_vars

(***************************************************************************)
(* Vocabulary of the properties.                                           *)
(***************************************************************************)
Done(o) == pc = "done" /\ op = o

Returned == outcome.result.kind = "return"

Threw(name) == outcome.result.kind = "throw" /\ outcome.result.name = name

\* { ...x } without the key k
Remove(x, k) == Obj(SelectEntries(x.o, LAMBDA e : e.k # k))

\* the node parse built before the nullable wrap of the top-level schema
Unwrapped ==
  IF Get(input, "nullable") = Bool(TRUE)
    THEN outcome.result.value.types[1]
    ELSE outcome.result.value

KnownTags == {"string", "number", "integer", "boolean", "null", "object", "array"}

\* the steps of the resolution order and the keywords each step reads
Steps == <<{"const"}, {"enum"}, {"allOf"}, {"oneOf", "anyOf"}, {"type"}>>

AllKeywords == UNION {Steps[g] : g \in 1..Len(Steps)}

\* a value of the shape the keyword is declared with
WellShaped(k, v) ==
  CASE k = "const" -> v.j \in {"string", "number", "boolean", "null"}
    [] k \in {"enum", "allOf", "oneOf", "anyOf"} -> IsArray(v)
    [] k = "type" -> v.j = "string" \/ IsArray(v)

WellShapedKeywords(x) ==
  \A k \in AllKeywords : Get(x, k) = Undef \/ WellShaped(k, Get(x, k))

PresentAt(x, g) == \E k \in Steps[g] : Get(x, k) # Undef

NonePresent(x) == \A g \in 1..Len(Steps) : ~PresentAt(x, g)

FirstStep(x) == CHOOSE g \in 1..Len(Steps) :
                  PresentAt(x, g) /\ \A h \in 1..(g - 1) : ~PresentAt(x, h)

\* x without the resolution keywords of every step but g
KeepOnly(x, g) == Obj(SelectEntries(x.o, LAMBDA e : e.k \notin (AllKeywords \ Steps[g])))

\* the top-level schema is resolved by its type keyword
ResolvedByType(x) ==
  /\ x.j = "object"
  /\ Get(x, "const") = Undef
  /\ \A k \in {"enum", "allOf", "oneOf", "anyOf"} : ~Truthy(Get(x, k))
  /\ Truthy(Get(x, "type"))

RECURSIVE TypeTagsIn(_)
\* every tag written as type or as element of a type list anywhere in x
TypeTagsIn(x) ==
  CASE x.j = "object" ->
         UNION {(IF x.o[i].k = "type"
                   THEN (CASE x.o[i].v.j = "string" -> {x.o[i].v.s}
                           [] x.o[i].v.j = "array" ->
                                {x.o[i].v.a[n].s : n \in 1..Len(x.o[i].v.a)}
                           [] OTHER -> {})
                   ELSE TypeTagsIn(x.o[i].v)) : i \in 1..Len(x.o)}
    [] x.j = "array" -> UNION {TypeTagsIn(x.a[i]) : i \in 1..Len(x.a)}
    [] OTHER -> {}

UnknownTagsIn(x) == TypeTagsIn(x) \ KnownTags

(***************************************************************************)
(* C1..C10: the parser and the entry points.                               *)
(***************************************************************************)

\* C1: whenever parse succeeds on a schema, the schema with nullable set to
\* true parses to Union([tree of the schema without the flag, Primitive(null)]);
\* a schema that carries nullable true is wrapped exactly once, around the
\* tree of the same schema without the flag, and a schema whose nullable is
\* absent or false gets exactly that tree, unwrapped.
NullableWrapsOnce ==
  (Done("parseSchema") /\ input.j = "object" /\ Returned) =>
    LET bare == parseSchema(Remove(input, "nullable"))
        wrapped == UnionNode(<<bare, PrimitiveNode("null")>>)
    IN /\ ~IsThrow(bare)
       /\ parseSchema(Put(input, "nullable", Bool(TRUE))) = wrapped
       /\ outcome.result.value =
            (IF Get(input, "nullable") = Bool(TRUE) THEN wrapped ELSE bare)

\* a nullable schema with a type list and one with a combinator were parsed
NullableWrapsOnceWitness ==
  /\ Done("parseSchema") /\ Returned
  /\ Get(input, "nullable") = Bool(TRUE)
  /\ IsArray(Get(input, "type")) /\ Len(Get(input, "type").a) = 2
  /\ outcome.result.value.kind = "union"
  /\ outcome.result.value.types[1].kind = "union"

\* C2: a schema whose resolution keywords are all well shaped is resolved by
\* the first step present in the order const, enum, allOf, oneOf/anyOf, type:
\* its result is the result of the same schema without the keywords of the
\* later steps, const yields Const and enum yields Enum, and a schema with
\* none of them yields Any; the same holds of a schema nested under items.
FirstKeywordWins ==
  (Done("parseSchema") /\ input.j = "object" /\ WellShapedKeywords(input)) =>
    /\ NonePresent(input) => Returned /\ Unwrapped = AnyNode
    /\ ~NonePresent(input) =>
         /\ outcome.result = Completion(parseSchema(KeepOnly(input, FirstStep(input))))
         /\ FirstStep(input) = 1 => Returned /\ Unwrapped = ConstNode(Get(input, "const"))
         /\ FirstStep(input) = 2 => Returned /\ Unwrapped = EnumNode(Get(input, "enum"))
    /\ LET items == Get(input, "items")
       IN (/\ Returned /\ Get(input, "type") = Str("array")
           /\ FirstStep(input) = Len(Steps)
           /\ items.j = "object" /\ WellShapedKeywords(items) /\ ~NonePresent(items)) =>
            Unwrapped = ArrayNode(parseSchema(KeepOnly(items, FirstStep(items))))

\* a schema with const, enum, a combinator and a type was parsed to Const
FirstKeywordWinsWitness ==
  /\ Done("parseSchema") /\ Returned /\ WellShapedKeywords(input)
  /\ Get(input, "const") = Str("a")
  /\ IsArray(Get(input, "enum")) /\ IsArray(Get(input, "oneOf"))
  /\ Get(input, "type") = Str("bogus")
  /\ outcome.result.value = ConstNode(Str("a"))

\* C3: parse of an object schema either returns a tree or raises ParserError
\* for an unrecognized type tag of the schema; it raises no other error.
ParseRaisesOnlyParserError ==
  (Done("parseSchema") /\ input.j = "object") =>
    \/ Returned
    \/ Threw("ParserError") /\ UnknownTagsIn(input) # {}

\* the nested schemas parse reaches from x, in the order it parses them: the
\* members of the combinator that resolves x, the items of an array, the
\* properties and the additionalProperties of an object
ReachedChildren(x) ==
  LET members(v) == IF IsArray(v) THEN v.a ELSE <<>>
      items == Get(x, "items")
      props == Get(x, "properties")
      additional == Get(x, "additionalProperties")
      values(es) == [i \in 1..Len(es) |-> es[i].v]
  IN IF Get(x, "const") # Undef \/ Truthy(Get(x, "enum")) THEN <<>>
     ELSE IF Truthy(Get(x, "allOf")) THEN members(Get(x, "allOf"))
     ELSE IF Truthy(Get(x, "oneOf")) THEN members(Get(x, "oneOf"))
     ELSE IF Truthy(Get(x, "anyOf")) THEN members(Get(x, "anyOf"))
     ELSE IF Get(x, "type") = Str("array")
       THEN (IF IsArray(items) THEN items.a
             ELSE IF Truthy(items) THEN <<items>> ELSE <<>>)
     ELSE IF Get(x, "type") = Str("object")
              /\ (Get(x, "required") = Undef \/ IsArray(Get(x, "required")))
       THEN (IF props.j = "object" THEN values(OwnOrder(props.o)) ELSE <<>>)
              \o (IF additional.j = "object" THEN <<additional>> ELSE <<>>)
     ELSE <<>>

\* x is resolved by a type that is one unrecognized, non-empty tag
UnknownScalarType(x) ==
  ResolvedByType(x) /\ Get(x, "type").j = "string" /\ Get(x, "type").s \notin KnownTags

UnknownType(tag) == ParserError(<<"Unknown type: ", tag>>)

ShapeOf(x) == IF IsArray(x) THEN "array" ELSE x.j

\* C5: convert and jsonSchemaToTypeScript reject null, undefined, strings,
\* numbers, booleans and arrays with a ParserError naming the shape, without
\* calling the parser; every other object is parsed, exactly once, and the
\* call ends as the parser ends.
ValidatesBeforeParsing ==
  (Done("convert") \/ Done("jsonSchemaToTypeScript")) =>
    IF input.j = "object"
      THEN /\ outcome.parserCalls = 1
           /\ Returned \/ outcome.result = parseSchema(input)
      ELSE /\ outcome.parserCalls = 0
           /\ outcome.result =
                (IF input \in {Null, Undef}
                   THEN ParserError(<<"Schema cannot be null or undefined">>)
                   ELSE ParserError(<<"Schema must be an object, got ", ShapeOf(input)>>))

\* an array was rejected before any parsing
ValidatesBeforeParsingWitness ==
  /\ Done("convert") /\ IsArray(input)
  /\ Threw("ParserError") /\ outcome.parserCalls = 0

\* C6: jsonSchemaToTypeScript returns the AST and no code when returnAST is
\* set, the code generated from the AST under the options and no AST
\* otherwise; convert returns the code of jsonSchemaToTypeScript called with
\* the type name, and throws what it throws.
ExactlyOneField ==
  /\ (Done("jsonSchemaToTypeScript") /\ Returned) =>
       outcome.result.value =
         (IF Truthy(Get(options, "returnAST"))
            THEN ConversionResult(Undef, parseSchema(input))
            ELSE ConversionResult(Code(generateTypeScript(parseSchema(input), options)),
                                  Undef))
  /\ (Done("convert") /\ input.j = "object") =>
       LET r == jsonSchemaToTypeScript(input, options)
       IN IF IsThrow(r) THEN outcome.result = r
          ELSE /\ r.value.ast = Undef
               /\ outcome.result = Return(r.value.code.text)

\* the AST of a named object type was returned without code
ExactlyOneFieldWitness ==
  /\ Done("jsonSchemaToTypeScript") /\ Returned
  /\ Get(options, "returnAST") = Bool(TRUE) /\ Get(options, "typeName") = Str("User")
  /\ outcome.result.value.code = Undef
  /\ outcome.result.value.ast.kind = "object"

\* the token of a scalar type tag
TokenOf(t) == IF t = "integer" THEN "number" ELSE t

\* C7: convert of {type: t} is exactly the token t for string, number, boolean
\* and null, and the token number for integer; the trees of {type: integer}
\* and {type: number} are the same Primitive.
ScalarTokens ==
  \A t \in {"string", "number", "boolean", "null", "integer"} :
    input = Obj(<<Entry("type", Str(t))>>) =>
      /\ (Done("convert") /\ ~Truthy(Get(options, "typeName"))) =>
           outcome.result = Return(<<TokenOf(t)>>)
      /\ Done("parseSchema") =>
           /\ outcome.result = Return(PrimitiveNode(TokenOf(t)))
           /\ t = "integer" =>
                outcome.result.value = parseSchema(Obj(<<Entry("type", Str("number"))>>))

\* {type: integer} was converted to the token number
ScalarTokensWitness ==
  /\ Done("convert")
  /\ input = Obj(<<Entry("type", Str("integer"))>>)
  /\ outcome.result = Return(<<"number">>)

\* the tree of x with its type replaced by the tag t, before any nullable wrap
TreeOfTag(x, t) == parseSchema(Remove(Put(x, "type", t), "nullable"))

\* what a type list L yields when every member is the tree of the schema with
\* that tag as scalar type
TypeListByMembers(x, L) ==
  LET members == [i \in 1..Len(L) |-> TreeOfTag(x, L[i])]
  IN IF Len(L) = 0 THEN Return(NeverNode)
     ELSE IF HasThrow(members) THEN FirstThrow(members)
     ELSE IF Len(L) = 1 THEN Return(members[1])
     ELSE Return(UnionNode(members))

\* the completion of parse without the nullable wrap of the top-level schema
UnwrappedResult == IF Returned THEN Return(Unwrapped) ELSE outcome.result

\* C8 as stated: a schema resolved by a type list yields Never for the empty
\* list, the tree of its one tag for a singleton, and otherwise the Union, in
\* list order and without deduplication, of the trees of the same schema with
\* the type replaced by each tag.
TypeListYieldsMemberTrees ==
  (Done("parseSchema") /\ ResolvedByType(input) /\ IsArray(Get(input, "type"))) =>
    UnwrappedResult = TypeListByMembers(input, Get(input, "type").a)

\* C8, amended: the same for a type list of non-empty tags; a list whose
\* first failing element is the empty tag raises ParserError, although the
\* empty tag as scalar type yields Any.
TypeListOfNonEmptyTags ==
  (Done("parseSchema") /\ ResolvedByType(input) /\ IsArray(Get(input, "type"))) =>
    LET L == Get(input, "type").a
    IN /\ (\A i \in 1..Len(L) : L[i] # Str("")) =>
            UnwrappedResult = TypeListByMembers(input, L)
       /\ \A i \in 1..Len(L) :
            (L[i] = Str("") /\ \A n \in 1..(i - 1) :
                                 L[n] # Str("") /\ ~IsThrow(TreeOfTag(input, L[n]))) =>
              /\ outcome.result = UnknownType("")
              /\ TreeOfTag(input, L[i]) = AnyNode

\* the list [object, array] gave a Union whose members took the properties
\* and the items of the schema
TypeListOfNonEmptyTagsWitness ==
  /\ Done("parseSchema") /\ Returned
  /\ Get(input, "type") = Arr(<<Str("object"), Str("array")>>)
  /\ Unwrapped.kind = "union"
  /\ Unwrapped.types[1].kind = "object" /\ Len(Unwrapped.types[1].properties) > 0
  /\ Unwrapped.types[2].kind = "tuple" /\ Len(Unwrapped.types[2].items) > 0

\* C9: with const and enum absent, allOf with member list M yields parse of
\* the member when M has one member and Intersection of parse of each member
\* in order otherwise; with allOf absent too, oneOf yields the same with
\* Union, whether or not anyOf is given; anyOf yields it when oneOf is absent.
CombinatorMembers ==
  (Done("parseSchema") /\ input.j = "object"
     /\ Get(input, "const") = Undef /\ Get(input, "enum") = Undef) =>
    LET allOf == Get(input, "allOf")
        oneOf == Get(input, "oneOf")
        anyOf == Get(input, "anyOf")
        expected(M, kind) ==
          LET parsed == [i \in 1..Len(M) |-> parseSchema(M[i])]
          IN IF HasThrow(parsed) THEN FirstThrow(parsed)
             ELSE IF Len(M) = 1 THEN Return(parsed[1])
             ELSE Return([kind |-> kind, types |-> parsed])
    IN /\ IsArray(allOf) => UnwrappedResult = expected(allOf.a, "intersection")
       /\ (allOf = Undef /\ IsArray(oneOf)) => UnwrappedResult = expected(oneOf.a, "union")
       /\ (allOf = Undef /\ oneOf = Undef /\ IsArray(anyOf)) =>
            UnwrappedResult = expected(anyOf.a, "union")

\* oneOf with two members beside anyOf gave the Union of the oneOf members, and
\* a single member was returned unwrapped
CombinatorMembersWitness ==
  /\ Done("parseSchema") /\ Returned
  /\ Get(input, "const") = Undef /\ Get(input, "enum") = Undef
  /\ Get(input, "allOf") = Undef
  /\ IsArray(Get(input, "oneOf")) /\ Len(Get(input, "oneOf").a) = 2
  /\ IsArray(Get(input, "anyOf")) /\ Len(Get(input, "anyOf").a) = 1
  /\ Unwrapped.kind = "union" /\ Len(Unwrapped.types) = 2

\* C10: a schema of type array yields Array(Any) without items, the Tuple of
\* parse of each item, in order, for an items list (the empty Tuple for the
\* empty list), and Array(parse(items)) for a single items schema.
ArrayItems ==
  (Done("parseSchema") /\ ResolvedByType(input) /\ Get(input, "type") = Str("array")) =>
    LET items == Get(input, "items")
        parsed == [i \in 1..Len(items.a) |-> parseSchema(items.a[i])]
    IN /\ items = Undef => UnwrappedResult = Return(ArrayNode(AnyNode))
       /\ IsArray(items) =>
            UnwrappedResult = (IF HasThrow(parsed) THEN FirstThrow(parsed)
                               ELSE Return(TupleNode(parsed)))
       /\ items.j = "object" =>
            UnwrappedResult = (IF IsThrow(parseSchema(items)) THEN parseSchema(items)
                               ELSE Return(ArrayNode(parseSchema(items))))

\* an empty items list gave the empty Tuple
ArrayItemsWitness ==
  /\ Done("parseSchema") /\ Returned
  /\ Get(input, "type") = Str("array") /\ Get(input, "items") = Arr(<<>>)
  /\ Unwrapped = TupleNode(<<>>)

(***************************************************************************)
(* Vocabulary of the properties of the generated text.                     *)
(***************************************************************************)
\* the string a text writes
Flat(text) ==
  LET F[n \in 0..Len(text)] == IF n = 0 THEN "" ELSE F[n - 1] \o text[n]
  IN F[Len(text)]

\* the lines of a text, each as a string (a line break is a piece of its own):
\* the pieces of line k are those with k - 1 line breaks before them
LinesOf(text) ==
  LET breaks == {i \in 1..Len(text) : text[i] = "\n"}
      before(i) == Cardinality({b \in breaks : b < i})
      pieces(k) == {i \in (1..Len(text)) \ breaks : before(i) = k - 1}
      first(k) == CHOOSE i \in pieces(k) : \A n \in pieces(k) : i <= n
      last(k) == CHOOSE i \in pieces(k) : \A n \in pieces(k) : n <= i
  IN [k \in 1..(Cardinality(breaks) + 1) |->
        IF pieces(k) = {} THEN "" ELSE Flat(SubSeq(text, first(k), last(k)))]

StartsWith(s, prefix) == Len(s) >= Len(prefix) /\ SubSeq(s, 1, Len(prefix)) = prefix

EndsWith(s, suffix) ==
  Len(s) >= Len(suffix) /\ SubSeq(s, Len(s) - Len(suffix) + 1, Len(s)) = suffix

\* the double-quoted string literal of a property name
StringLiteral(p) == "\"" \o (IF p = "a\"b" THEN "a\\\"b" ELSE p) \o "\""

\* the line opens the property p of a block at indentation level 0
BareLineOf(line, p) ==
  p # "" /\ (StartsWith(line, "  " \o p \o ": ") \/ StartsWith(line, "  " \o p \o "?: "))

QuotedLineOf(line, p) ==
  \/ StartsWith(line, "  " \o StringLiteral(p) \o ": ")
  \/ StartsWith(line, "  " \o StringLiteral(p) \o "?: ")

LineOf(line, p) == BareLineOf(line, p) \/ QuotedLineOf(line, p)

\* the line of p carries the optional marker
MarkedLineOf(line, p) ==
  \/ p # "" /\ StartsWith(line, "  " \o p \o "?: ")
  \/ StartsWith(line, "  " \o StringLiteral(p) \o "?: ")

\* the line opens some property of a block at indentation level 0
IsPropertyLine(line) ==
  /\ StartsWith(line, "  ")
  /\ Len(line) >= 3
  /\ SubSeq(line, 3, 3) \in IdentifierStart \cup {"\""}

IsIndexSignatureLine(line) == StartsWith(line, "  [key: string]: ")

\* the names a schema declares under properties, in the order it writes them
DeclaredNames(x) ==
  LET props == Get(x, "properties")
  IN IF props.j = "object" THEN [i \in 1..Len(props.o) |-> props.o[i].k] ELSE <<>>

\* the names of a required list; none when the list is absent
RequiredNames(x) ==
  LET required == Get(x, "required")
  IN IF IsArray(required) THEN {required.a[i].s : i \in 1..Len(required.a)} ELSE {}

\* the text convert returned
ConvertedLines == LinesOf(outcome.result.value)

\* the Object node of a schema of type object, under its nullable wrap
ObjectTree == Unwrapped

(***************************************************************************)
(* C11..C20: objects and the generator.                                    *)
(***************************************************************************)

\* C11: for every object schema and every declared property p, exactly one
\* line of the block is the line of p, and it carries the optional marker ?
\* if and only if p is not a member of the required list (an absent list
\* counts as empty); the tree marks p required under the same condition; a
\* name of the required list that is not declared adds no property to the
\* tree and no line to the text.
OptionalMarkerIffNotRequired ==
  LET declared == Range(DeclaredNames(input))
      required == RequiredNames(input)
  IN /\ (Done("parseSchema") /\ Returned) =>
          /\ {ObjectTree.properties[i].k : i \in 1..Len(ObjectTree.properties)} = declared
          /\ Len(ObjectTree.properties) = Cardinality(declared)
          /\ \A i \in 1..Len(ObjectTree.properties) :
               ObjectTree.properties[i].v.required
                 <=> (ObjectTree.properties[i].k \in required)
     /\ (Done("convert") /\ Returned) =>
          LET lines == ConvertedLines
          IN /\ \A p \in declared :
                  /\ Cardinality({i \in 1..Len(lines) : LineOf(lines[i], p)}) = 1
                  /\ \A i \in 1..Len(lines) :
                       LineOf(lines[i], p) => (MarkedLineOf(lines[i], p) <=> p \notin required)
             /\ Cardinality({i \in 1..Len(lines) : IsPropertyLine(lines[i])})
                  = Cardinality(declared)
             /\ \A r \in required \ declared :
                  \A i \in 1..Len(lines) : ~LineOf(lines[i], r)

\* an object with required and optional properties and a required name that
\* is not declared was converted
OptionalMarkerIffNotRequiredWitness ==
  /\ Done("convert") /\ Returned
  /\ DeclaredNames(input) = <<"name", "a-b", "1">>
  /\ RequiredNames(input) = {"name", "1", "zz"}
  /\ \E i \in 1..Len(ConvertedLines) : StartsWith(ConvertedLines[i], "  name: ")
  /\ \E i \in 1..Len(ConvertedLines) : StartsWith(ConvertedLines[i], "  \"a-b\"?: ")

LineNumberOf(lines, p) == CHOOSE i \in 1..Len(lines) : LineOf(lines[i], p)

\* C13: the Object node holds exactly the declared names, each once, in the
\* order in which the schema declares them, and convert writes one line per
\* property in that order, whatever the names are (bare identifiers, names
\* with hyphens, purely numeric names).
DeclarationOrderKept ==
  LET names == DeclaredNames(input)
  IN /\ (Done("parseSchema") /\ Returned) =>
          [i \in 1..Len(ObjectTree.properties) |-> ObjectTree.properties[i].k] = names
     /\ (Done("convert") /\ Returned) =>
          LET lines == ConvertedLines
          IN \A j, k \in 1..Len(names) :
               j < k => LineNumberOf(lines, names[j]) < LineNumberOf(lines, names[k])

\* the declared names that are valid bare identifiers: a letter, _ or $ first,
\* then letters, digits, _ and $
BareNames == {"id", "name", "_x", "$ref", "Z9", "a", "b"}

\* the other declared names: with a hyphen, a space or a quote, purely
\* numeric, starting with a digit, empty
QuotedNames == {"my-key", "a-b", "a b", "a\"b", "123", "1", "2", "10", "01", "1a", ""}

\* C14: a property name is written bare if and only if it is a valid bare
\* identifier; every other name is written as a double-quoted string
\* literal, and the optional marker follows the closing quote.
KeyQuotedIffNotIdentifier ==
  (Done("convert") /\ Returned) =>
    LET lines == ConvertedLines
    IN \A p \in Range(DeclaredNames(input)) :
         /\ p \in BareNames \cup QuotedNames
         /\ \E i \in 1..Len(lines) : LineOf(lines[i], p)
         /\ \A i \in 1..Len(lines) :
              LineOf(lines[i], p) =>
                /\ BareLineOf(lines[i], p) <=> p \in BareNames
                /\ QuotedLineOf(lines[i], p) <=> p \in QuotedNames
                /\ (p \in QuotedNames /\ p \notin RequiredNames(input)) =>
                     StartsWith(lines[i], "  " \o StringLiteral(p) \o "?: ")

\* names of every class were written: bare, quoted with the marker, quoted
\* empty, quoted numeral
KeyQuotedIffNotIdentifierWitness ==
  /\ Done("convert") /\ Returned
  /\ DeclaredNames(input) = <<"_x", "$ref", "1a", "">>
  /\ RequiredNames(input) = {}
  /\ \E i \in 1..Len(ConvertedLines) : StartsWith(ConvertedLines[i], "  $ref?: ")
  /\ \E i \in 1..Len(ConvertedLines) : StartsWith(ConvertedLines[i], "  \"1a\"?: ")
  /\ \E i \in 1..Len(ConvertedLines) : StartsWith(ConvertedLines[i], "  \"\"?: ")

\* generateTypeScript was called without a type name: the text is the body
Rendered == Done("generateTypeScript") /\ Returned /\ ~Truthy(Get(options, "typeName"))

Body == outcome.result.value

\* the indentation level the options ask for
IndentLevel == OptionOr(options, "indent", Num(0)).n

\* the rendering of a node at the indentation level of the call, as a string
RenderingOf(node) == Flat(generateNode(node, IndentLevel))

\* a text is a brace block at the indentation level of the call
IsBlock(text) ==
  LET lines == LinesOf(text)
  IN /\ Len(lines) >= 2
     /\ lines[1] = "{"
     /\ lines[Len(lines)] = Flat(Repeat(INDENT, IndentLevel)) \o "}"

UnionMember(node) ==
  LET generated == generateNode(node, IndentLevel)
  IN IF node.kind = "object" /\ Len(LinesOf(generated)) > 1
       THEN "(" \o Flat(generated) \o ")"
       ELSE Flat(generated)

\* C16: Array(e) renders as (E)[] exactly when e is a Union, an Intersection
\* or an Enum, and as E[] when e is a Primitive, Any, Never, Literal, Const,
\* Object, Array or Tuple, E being the rendering of e; the array the parser
\* builds for nullable items renders as (T | null)[], and the nullable array
\* as T[] | null.
ArrayParentheses ==
  /\ (Rendered /\ input.kind = "array") =>
       /\ input.items.kind \in {"union", "intersection", "enum"} =>
            Flat(Body) = "(" \o RenderingOf(input.items) \o ")[]"
       /\ input.items.kind \in {"primitive", "any", "never", "literal", "const",
                                 "object", "array", "tuple"} =>
            Flat(Body) = RenderingOf(input.items) \o "[]"
       /\ \A schema \in NullableArraySchemas :
            LET items == Get(schema, "items")
            IN (input = parseSchema(schema) /\ Get(items, "nullable") = Bool(TRUE)) =>
                 Flat(Body) = "(" \o UnionMember(parseSchema(Remove(items, "nullable")))
                                \o " | null)[]"
  /\ (Rendered /\ input.kind = "union") =>
       \A schema \in NullableArraySchemas :
         (input = parseSchema(schema) /\ Get(schema, "nullable") = Bool(TRUE)) =>
           Flat(Body) = RenderingOf(parseSchema(Remove(schema, "nullable"))) \o " | null"

\* the array of nullable integers was rendered as (number | null)[]
ArrayParenthesesWitness ==
  /\ Rendered
  /\ input = ArrayNode(UnionNode(<<PrimitiveNode("number"), PrimitiveNode("null")>>))
  /\ Flat(Body) = "(number | null)[]"

\* the strings of a list joined by a separator
JoinStrings(parts, sep) ==
  LET F[n \in 0..Len(parts)] ==
        IF n = 0 THEN ""
        ELSE IF n = 1 THEN parts[1]
        ELSE F[n - 1] \o sep \o parts[n]
  IN F[Len(parts)]

\* C17: Union(members) renders as never without members, as the rendering of
\* the member when there is one, and otherwise as the renderings of all
\* members in order joined by ` | `, a member being in parentheses if and
\* only if it is an Object whose rendering spans several lines.
UnionRendering ==
  (Rendered /\ input.kind = "union") =>
    LET members == input.types
    IN /\ Len(members) = 0 => Flat(Body) = "never"
       /\ Len(members) = 1 => Flat(Body) = RenderingOf(members[1])
       /\ Len(members) >= 2 =>
            Flat(Body) = JoinStrings([i \in 1..Len(members) |-> UnionMember(members[i])],
                                     " | ")

\* a union of a tuple that holds a record and a record was rendered: the
\* record is in parentheses, the tuple that spans several lines is not
UnionRenderingWitness ==
  /\ Rendered /\ IndentLevel = 0
  /\ input = UnionNode(<<TupleNode(<<PrimitiveNode("string"), UserRecord>>),
                         IntersectionNode(<<>>)>>)
  /\ Flat(Body) = "[string, {\n  id: number;\n  name?: string;\n}] | never"

\* a member as an intersection of several members writes it: a Union, and an
\* Object that spans several lines, in parentheses, every other member as it is
IntersectionMember(node) ==
  LET generated == generateNode(node, IndentLevel)
  IN IF node.kind = "union" \/ (node.kind = "object" /\ Len(LinesOf(generated)) > 1)
       THEN "(" \o Flat(generated) \o ")"
       ELSE Flat(generated)

\* C18: Intersection(members) renders as never without members, as the
\* rendering of the member when there is one, and otherwise as the renderings
\* of all members in order joined by ` & `, a member being in parentheses if
\* and only if it is a Union node or an Object whose rendering spans several
\* lines.
IntersectionRendering ==
  (Rendered /\ input.kind = "intersection") =>
    LET members == input.types
    IN /\ Len(members) = 0 => Flat(Body) = "never"
       /\ Len(members) = 1 => Flat(Body) = RenderingOf(members[1])
       /\ Len(members) >= 2 =>
            Flat(Body) = JoinStrings([i \in 1..Len(members) |->
                                        IntersectionMember(members[i])], " & ")

\* an intersection of two unions was rendered with each union in parentheses,
\* the record inside the second in parentheses of its own
IntersectionRenderingWitness ==
  /\ Rendered /\ IndentLevel = 0
  /\ input = IntersectionNode(<<UnionNode(<<PrimitiveNode("string"), PrimitiveNode("null")>>),
                                UnionNode(<<UserRecord, PrimitiveNode("null")>>)>>)
  /\ Flat(Body) = "(string | null) & (({\n  id: number;\n  name?: string;\n}) | null)"

\* the tuple notation of the renderings of the elements
TupleOf(elements) ==
  IF Len(elements) = 0 THEN "[]"
  ELSE "[" \o JoinStrings([i \in 1..Len(elements) |-> RenderingOf(elements[i])], ", ") \o "]"

\* C19 as stated: Tuple(elements) renders as [] when the list is empty and
\* otherwise as [ followed by the renderings of the elements in order joined
\* by `, ` followed by ], and the output is a single line whatever the kind
\* and the nesting of the elements.
TupleOnOneLine ==
  (Rendered /\ input.kind = "tuple") =>
    /\ Flat(Body) = TupleOf(input.items)
    /\ Len(LinesOf(Body)) = 1

\* C19, amended: the same notation, and the tuple adds no line break of its
\* own: the output is a single line exactly when the rendering of every
\* element is a single line; an element that is or holds an Object rendered
\* as a block keeps its line breaks inside the brackets.
TupleJoinsElements ==
  (Rendered /\ input.kind = "tuple") =>
    /\ Flat(Body) = TupleOf(input.items)
    /\ Len(LinesOf(Body)) = 1
         <=> \A i \in 1..Len(input.items) :
               Len(LinesOf(generateNode(input.items[i], IndentLevel))) = 1
    /\ \A i \in 1..Len(input.items) :
         (input.items[i].kind = "object" /\ Len(input.items[i].properties) > 0) =>
           Len(LinesOf(Body)) > 1

\* a tuple of a string and a record was rendered over four lines
TupleJoinsElementsWitness ==
  /\ Rendered /\ IndentLevel = 0
  /\ input = TupleNode(<<PrimitiveNode("string"), UserRecord>>)
  /\ LinesOf(Body) = <<"[string, {", "  id: number;", "  name?: string;", "}]">>

\* a name is supplied: the type name is a string that is not empty
NameSupplied == Get(options, "typeName").j = "string" /\ Get(options, "typeName").s # ""

\* C20: when a name is supplied the text is
\* `export <keyword> <Name><assignment><body>;`, with the keyword interface
\* and a single space as assignment if and only if the node is an Object and
\* the alias preference is set to false, and with the keyword type and the
\* assignment ` = ` in every other case (preference absent or true, or a node
\* that is no Object, such as the Union of a nullable object); without a name
\* (none, or the empty string) the text is the body alone.
DeclarationWrapping ==
  (Done("generateTypeScript") /\ Returned) =>
    LET name == Get(options, "typeName")
        record == input.kind = "object" /\ Get(options, "useTypeAlias") = Bool(FALSE)
        body == RenderingOf(input)
    IN Flat(outcome.result.value) =
         (IF ~NameSupplied THEN body
          ELSE IF record THEN "export interface " \o name.s \o " " \o body \o ";"
          ELSE "export type " \o name.s \o " = " \o body \o ";")

\* with the alias preference set to false, a record was declared as an
\* interface at indentation level 1
DeclarationWrappingWitness ==
  /\ Done("generateTypeScript")
  /\ Get(options, "useTypeAlias") = Bool(FALSE) /\ IndentLevel = 1
  /\ input = UserRecord
  /\ Flat(outcome.result.value)
       = "export interface User {\n    id: number;\n    name?: string;\n  };"

BlockAlone(tool) == generateToolTypes(<<tool>>).value

\* the tool's parameter schema makes parseSchema raise ParserError
RaisesParserError(tool) ==
  IsThrow(parseSchema(tool.parameters)) /\ parseSchema(tool.parameters).name = "ParserError"

\* the declaration line of the block takes the argument type `any`
DeclaresAny(tool, block) ==
  /\ Len(block) >= 5
  /\ SubSeq(block, Len(block) - 4, Len(block))
       = <<"declare function ", tool.name, "(args: ", "any", "): Promise<any>;">>

\* C22: generateToolTypes degrades locally: for every list of tools it
\* returns, and the text is one block per tool, in input order, joined by one
\* blank line, each block being the one the tool gets when given alone; the
\* block of a tool whose parameter schema raises ParserError declares the
\* argument type any, and no exception reaches the caller.
ToolTypesDegradeLocally ==
  Done("generateToolTypes") =>
    /\ Returned
    /\ outcome.result.value
         = Join([i \in 1..Len(input) |-> BlockAlone(input[i])], <<"\n", "\n">>)
    /\ \A i \in 1..Len(input) :
         RaisesParserError(input[i]) => DeclaresAny(input[i], BlockAlone(input[i]))

RECURSIVE Size(_)
\* the number of nodes of a tree
Size(node) ==
  LET Sum(f) ==
        LET F[n \in 0..Len(f)] == IF n = 0 THEN 0 ELSE F[n - 1] + f[n]
        IN F[Len(f)]
  IN CASE node.kind \in {"union", "intersection"} ->
            1 + Sum([i \in 1..Len(node.types) |-> Size(node.types[i])])
       [] node.kind = "array" -> 1 + Size(node.items)
       [] node.kind = "tuple" -> 1 + Sum([i \in 1..Len(node.items) |-> Size(node.items[i])])
       [] node.kind = "object" ->
            1 + Sum([i \in 1..Len(node.properties) |-> Size(node.properties[i].v.type)])
              + (IF "kind" \in DOMAIN node.additionalProperties
                   THEN Size(node.additionalProperties) ELSE 0)
       [] OTHER -> 1

\* C23: render never fails and terminates: for every tree and every
\* combination of options generateTypeScript returns a text, after at most
\* as many calls of generateNode as the tree has nodes, and throws nothing.
RenderNeverFails ==
  Done("generateTypeScript") =>
    /\ Returned
    /\ Len(outcome.result.value) >= 0
    /\ generateNodeCalls(input) <= Size(input)

RECURSIVE LineOpenings(_, _)
\* the lines that follow the first line of the text of node at level L, in
\* order, each with the number of spaces it starts with and what it opens:
\* a property, the index signature or the closing brace of a record
LineOpenings(node, L) ==
  LET Concat(f) ==
        LET F[n \in 0..Len(f)] == IF n = 0 THEN <<>> ELSE F[n - 1] \o f[n]
        IN F[Len(f)]
      Opening(spaces, opens) == [spaces |-> spaces, opens |-> opens]
  IN CASE node.kind \in {"union", "intersection"} ->
            Concat([i \in 1..Len(node.types) |-> LineOpenings(node.types[i], L)])
       [] node.kind = "array" -> LineOpenings(node.items, L)
       [] node.kind = "tuple" ->
            Concat([i \in 1..Len(node.items) |-> LineOpenings(node.items[i], L)])
       [] node.kind = "object" ->
            IF Len(node.properties) = 0 /\ ~HasAdditional(node.additionalProperties) THEN <<>>
            ELSE Concat([i \in 1..Len(node.properties) |->
                           <<Opening(2 * (L + 1), "property")>>
                             \o LineOpenings(node.properties[i].v.type, L + 1)])
                   \o (IF ~HasAdditional(node.additionalProperties) THEN <<>>
                       ELSE <<Opening(2 * (L + 1), "index")>>
                              \o (IF "kind" \in DOMAIN node.additionalProperties
                                    THEN LineOpenings(node.additionalProperties, L + 1)
                                    ELSE <<>>))
                   \o <<Opening(2 * L, "close")>>
       [] OTHER -> <<>>

\* the number of spaces a line starts with
LeadingSpaces(line) ==
  CHOOSE n \in 0..Len(line) :
    /\ \A i \in 1..n : SubSeq(line, i, i) = " "
    /\ n < Len(line) => SubSeq(line, n + 1, n + 1) # " "

\* what a line opens after its spaces
OpenedBy(line) ==
  LET n == LeadingSpaces(line)
      c == IF n < Len(line) THEN SubSeq(line, n + 1, n + 1) ELSE ""
  IN IF c = "}" THEN "close" ELSE IF c = "[" THEN "index" ELSE "property"

\* C27: indentation follows nesting in two-space increments: in the text of
\* a tree every property line and index-signature line of a record at level
\* L (the indent option, plus one per enclosing record) starts with exactly
\* 2 * (L + 1) spaces and its closing brace with exactly 2 * L spaces, also
\* for the records reached through arrays, tuples, unions, intersections
\* and additional-entries types; the text has no other line after the first.
IndentationFollowsNesting ==
  (Done("generateTypeScript") /\ Returned) =>
    LET lines == LinesOf(outcome.result.value)
        openings == LineOpenings(input, IndentLevel)
    IN /\ Len(lines) = Len(openings) + 1
       /\ \A k \in 1..Len(openings) :
            /\ LeadingSpaces(lines[k + 1]) = openings[k].spaces
            /\ OpenedBy(lines[k + 1]) = openings[k].opens

\* a record at level 2 whose property holds a record inside a tuple and whose
\* additional entries are arrays of records
IndentationFollowsNestingWitness ==
  /\ Done("generateTypeScript") /\ Returned
  /\ IndentLevel = 2
  /\ input = ObjectNode(<<Entry("x", PropertyDefinition(TupleNode(<<UserRecord>>), FALSE))>>,
                        ArrayNode(UserRecord))
  /\ LET lines == LinesOf(outcome.result.value)
     IN /\ Len(lines) = 10
        /\ LeadingSpaces(lines[2]) = 6
        /\ LeadingSpaces(lines[3]) = 8
        /\ LeadingSpaces(lines[10]) = 4

RECURSIVE Alternatives(_)
\* the text of node has the union separator at its top level: a union or an
\* enum of two or more, or a union or intersection of one such member, which
\* is written as that member
Alternatives(node) ==
  CASE node.kind = "enum" -> Len(node.values.a) >= 2
    [] node.kind \in {"union", "intersection"} ->
         \/ node.kind = "union" /\ Len(node.types) >= 2
         \/ Len(node.types) = 1 /\ Alternatives(node.types[1])
    [] OTHER -> FALSE

\* C29: the text respects operator precedence inside an intersection: of an
\* Intersection with two or more members, every member whose own text has
\* ` | ` at its top level (a Union node, an Enum node with two or more
\* values) is written in parentheses, the members joined by ` & `.
IntersectionKeepsAlternativesTogether ==
  (Rendered /\ input.kind = "intersection" /\ Len(input.types) >= 2) =>
    LET members == input.types
        Written(i, wrap) ==
          IF wrap[i] THEN "(" \o RenderingOf(members[i]) \o ")" ELSE RenderingOf(members[i])
    IN \E wrap \in [1..Len(members) -> BOOLEAN] :
         /\ \A i \in 1..Len(members) : Alternatives(members[i]) => wrap[i]
         /\ Flat(Body) = JoinStrings([i \in 1..Len(members) |-> Written(i, wrap)], " & ")

(***************************************************************************)
(* The sandbox (agent/code-execution-tool.ts): a caller creates a sandbox  *)
(* for a list of tools and has pieces of code executed in it, one after    *)
(* the other.  The code runs on the event loop: a step of the code, the    *)
(* settling of an asynchronous tool call and the passing of time are the   *)
(* actions.  While code runs no promise settles; only when the code waits  *)
(* (or has ended) the event loop takes the next completion.                *)
(***************************************************************************)
\* the executions on one sandbox
MaxExecutions == 2

\* the last reading of the clock
MaxTime == 3

\* a tool by what its execute does: it returns or throws at once, or it
\* returns a promise that resolves or rejects later
SandboxTool(name, async, fails) == [name |-> name, async |-> async, fails |-> fails]

add == SandboxTool("add", FALSE, FALSE)

alwaysFails == SandboxTool("alwaysFails", FALSE, TRUE)

fetchData == SandboxTool("fetchData", TRUE, FALSE)

\* an asynchronous tool whose promise rejects
slowFailure == SandboxTool("slowFailure", TRUE, TRUE)

\* what execute returns or resolves with
ToolValue(name, args) ==
  IF name = "add" THEN Num(Get(args, "a").n + Get(args, "b").n)
  ELSE Obj(<<Entry("id", Get(args, "id")), Entry("data", Str("Data"))>>)

\* error?.message of what execute throws or rejects with
ToolMessage(name) == IF name = "alwaysFails" THEN "Intentional failure" ELSE "Too slow"

(***************************************************************************)
(* The code: a list of statements.                                         *)
(***************************************************************************)
\* tool(args), await tool(args) or await Promise.all([tool(args), ...]),
\* inside try { } catch { } when caught
CallStatement(tools, args, awaited, caught) ==
  [op |-> "call", tools |-> tools, args |-> args, awaited |-> awaited, caught |-> caught]

ThrowStatement == [op |-> "throw"]

LogStatement(text) == [op |-> "log", text |-> text]

\* while (true) {}
LoopStatement == [op |-> "loop"]

ReturnStatement(value) == [op |-> "return", value |-> value]

Script(body) == [valid |-> TRUE, body |-> body]

\* code that vm.Script cannot compile
InvalidCode == [valid |-> FALSE, body |-> <<>>]

Sum12 == Obj(<<Entry("a", Num(1)), Entry("b", Num(2))>>)

Id(n) == Obj(<<Entry("id", Num(n))>>)

\* the pieces of code a caller hands in
Programs ==
  {InvalidCode,
   Script(<<>>),
   Script(<<ReturnStatement(Num(1))>>),
   Script(<<ThrowStatement>>),
   Script(<<LoopStatement>>),
   Script(<<LogStatement("start"), CallStatement(<<add>>, <<Sum12>>, FALSE, FALSE),
          ReturnStatement(Num(3))>>),
   Script(<<CallStatement(<<add>>, <<Sum12>>, TRUE, FALSE), LoopStatement>>),
   Script(<<LogStatement("start"), CallStatement(<<alwaysFails>>, <<EmptyObj>>, TRUE, FALSE),
            ReturnStatement(Num(1))>>),
   Script(<<CallStatement(<<alwaysFails>>, <<EmptyObj>>, TRUE, TRUE),
          ReturnStatement(Str("caught"))>>),
   Script(<<CallStatement(<<fetchData>>, <<Id(42)>>, TRUE, FALSE), ReturnStatement(Num(1))>>),
   Script(<<CallStatement(<<fetchData>>, <<Id(1)>>, FALSE, FALSE), ReturnStatement(Num(1))>>),
   Script(<<CallStatement(<<fetchData>>, <<Id(1)>>, FALSE, FALSE), ThrowStatement>>),
   Script(<<CallStatement(<<slowFailure>>, <<Id(1)>>, TRUE, FALSE), ReturnStatement(Num(1))>>),
   Script(<<CallStatement(<<slowFailure>>, <<Id(1)>>, TRUE, TRUE), LogStatement("caught")>>),
   Script(<<CallStatement(<<slowFailure>>, <<Id(1)>>, FALSE, FALSE), ReturnStatement(Num(1))>>),
   Script(<<CallStatement(<<fetchData, fetchData>>, <<Id(1), Id(2)>>, TRUE, FALSE),
          ReturnStatement(Num(2))>>),
   Script(<<CallStatement(<<fetchData, slowFailure>>, <<Id(1), Id(2)>>, TRUE, FALSE)>>),
   Script(<<CallStatement(<<fetchData>>, <<Id(1)>>, FALSE, FALSE),
          CallStatement(<<fetchData>>, <<Id(2)>>, TRUE, FALSE),
          CallStatement(<<add>>, <<Sum12>>, FALSE, FALSE)>>)}

\* the maxExecutionTime options of the calls, in readings of the clock
ExecutionTimes == {1, 2}

(***************************************************************************)
(* The proxies of createToolSandbox.                                       *)
(***************************************************************************)
\* a call of a proxy: promise is the position of its tracked promise in
\* pendingPromises, 0 for a call that returned or threw at once
ProxyCall(promise, tool, args, timestamp) ==
  [promise |-> promise, name |-> tool.name, arguments |-> args, timestamp |-> timestamp,
   fails |-> tool.fails]

\* ToolCallOf recording a failed call with its error beside a result
ToolCallWithBoth(c) ==
  IF c.fails
    THEN [name |-> c.name, arguments |-> c.arguments, result |-> Undef,
          error |-> ToolMessage(c.name), timestamp |-> c.timestamp]
    ELSE [name |-> c.name, arguments |-> c.arguments,
          result |-> ToolValue(c.name, c.arguments), timestamp |-> c.timestamp]

\* the record a proxy pushes when its call has completed
ToolCallOf(c) ==
  IF c.fails
    THEN [name |-> c.name, arguments |-> c.arguments, error |-> ToolMessage(c.name),
          timestamp |-> c.timestamp]
    ELSE [name |-> c.name, arguments |-> c.arguments,
          result |-> ToolValue(c.name, c.arguments), timestamp |-> c.timestamp]

\* Push putting the new element before the others
PushFirst(array, item) == <<item>> \o array

\* array.push(item)
Push(array, item) == Append(array, item)

\* the events of the history of a sandbox
Invoked(c) == [event |-> "invoke", call |-> c]

Recorded(c) == [event |-> "record", call |-> c]

Raised(c) == [event |-> "raise", call |-> c]

\* what became of a call that has completed
Completed(c) == IF c.fails THEN <<Recorded(c), Raised(c)>> ELSE <<Recorded(c)>>

(***************************************************************************)
(* executeInSandbox.                                                       *)
(***************************************************************************)
\* the SandboxResult for the caller, with the call it answers: the code, its
\* time limit, when the code began and ended, and the calls it started that
\* have not settled (those whose promise lies behind base in pendingPromises)
Answer(code, limit, started, ended, base, output, error, calls, lines, unsettled) ==
  [toolCalls |-> calls, output |-> output, logs |-> lines, error |-> error,
   code |-> code, maxExecutionTime |-> limit, started |-> started, ended |-> ended,
   unsettled |-> {c \in unsettled : c.promise > base}]

\* no error field
NoError == "none"

\* executeInSandbox returns what the sandbox holds after this step
Returns(output, error, unsettled) ==
  /\ results' = Append(results,
                       Answer(execution.code, execution.maxExecutionTime, execution.started,
                              IF execution.phase = "settling" THEN execution.ended ELSE now,
                              execution.base, output, error, toolCalls', logs', unsettled))
  /\ execution' = [phase |-> "none"]

\* the promise of the code resolved: the pending promises are awaited first
CodeResolves(output) ==
  IF Len(pendingPromises') > 0 /\ inflight' # {}
    THEN /\ execution' = [execution EXCEPT !.phase = "settling", !.output = output,
                                            !.ended = now]
         /\ UNCHANGED results
    ELSE Returns(output, NoError, inflight')

\* the script threw or the promise of the code rejected: the catch block
CodeRejects(message) == Returns(Undef, message, inflight')

\* the code goes on with its next statement
Advance(awaited) ==
  /\ execution' = [execution EXCEPT !.phase = "running", !.at = @ + 1, !.waiting = {},
                                    !.sync = @ /\ ~awaited]
  /\ UNCHANGED results

Running == execution.phase = "running"

AtEnd == Running /\ execution.at > Len(execution.code.body)

Statement == execution.code.body[execution.at]

At(o) == Running /\ ~AtEnd /\ Statement.op = o

\* the caller calls executeInSandbox(code, sandbox, { maxExecutionTime })
SandboxUntouched == UNCHANGED <<input, options, pc, op, outcome>>

ExecuteInSandbox ==
  /\ execution.phase = "none"
  /\ Len(results) < MaxExecutions
  /\ \E code \in Programs, limit \in ExecutionTimes :
       IF code.valid
         THEN /\ execution' = [phase |-> "running", code |-> code, at |-> 1, sync |-> TRUE,
                               started |-> now, maxExecutionTime |-> limit,
                               ended |-> now, base |-> Len(pendingPromises),
                               waiting |-> {}, output |-> Undef]
              /\ UNCHANGED results
         ELSE /\ results' = Append(results,
                                   Answer(code, limit, now, now, Len(pendingPromises), Undef,
                                          "SyntaxError",
                                          toolCalls, logs, inflight))
              /\ UNCHANGED execution
  /\ UNCHANGED <<toolCalls, pendingPromises, logs, now, inflight, history>>
  /\ SandboxUntouched

\* the code ends or returns
RunReturn ==
  /\ AtEnd \/ At("return")
  /\ UNCHANGED <<toolCalls, pendingPromises, logs, now, inflight, history>>
  /\ CodeResolves(IF AtEnd THEN Undef ELSE Statement.value)
  /\ SandboxUntouched

RunThrow ==
  /\ At("throw")
  /\ UNCHANGED <<toolCalls, pendingPromises, logs, now, inflight, history>>
  /\ CodeRejects("Error")
  /\ SandboxUntouched

\* console.log
RunLog ==
  /\ At("log")
  /\ logs' = Push(logs, Statement.text)
  /\ UNCHANGED <<toolCalls, pendingPromises, now, inflight, history>>
  /\ Advance(FALSE)
  /\ SandboxUntouched

\* an endless loop: vm stops the script after maxExecutionTime as long as
\* runInContext has not returned, which it does at the first await of the
\* code; after that nothing stops the loop and nothing else runs any more
RunLoop ==
  /\ At("loop")
  /\ UNCHANGED <<toolCalls, pendingPromises, logs, now, inflight, history>>
  /\ IF execution.sync
       THEN /\ now - execution.started >= execution.maxExecutionTime
            /\ CodeRejects("Script execution timed out")
       ELSE /\ execution' = [execution EXCEPT !.phase = "hung"]
            /\ UNCHANGED results
  /\ SandboxUntouched

\* the code calls the proxy of a tool whose execute returns or throws
CallTool ==
  /\ At("call")
  /\ ~Statement.tools[1].async
  /\ LET c == ProxyCall(0, Statement.tools[1], Statement.args[1], now)
     IN /\ toolCalls' = Push(toolCalls, ToolCallOf(c))
        /\ history' = history \o <<Invoked(c)>> \o Completed(c)
        /\ UNCHANGED <<pendingPromises, logs, now, inflight>>
        /\ IF c.fails /\ ~Statement.caught THEN CodeRejects(ToolMessage(c.name))
           ELSE Advance(Statement.awaited)
  /\ SandboxUntouched

\* the code calls the proxies of tools whose execute returns a promise, and
\* awaits the tracked promises or goes on
CallAsyncTool ==
  /\ At("call")
  /\ Statement.tools[1].async
  /\ LET started == [i \in 1..Len(Statement.tools) |->
                       ProxyCall(Len(pendingPromises) + i, Statement.tools[i],
                                 Statement.args[i], now)]
     IN /\ pendingPromises' = pendingPromises \o started
        /\ inflight' = inflight \cup Range(started)
        /\ history' = history \o [i \in 1..Len(started) |-> Invoked(started[i])]
        /\ UNCHANGED <<toolCalls, logs, now, results>>
        /\ IF Statement.awaited
             THEN execution' = [execution EXCEPT !.phase = "awaiting", !.sync = FALSE,
                                                 !.waiting = {started[i].promise :
                                                                i \in 1..Len(started)}]
             ELSE execution' = [execution EXCEPT !.at = @ + 1]
  /\ SandboxUntouched

\* the promise of an asynchronous call settles: its record is pushed, and
\* the code that awaits it, or executeInSandbox that awaits the pending
\* promises, goes on
SettleWith(c, record) ==
  /\ c \in inflight
  /\ execution.phase \in {"none", "awaiting", "settling"}
  /\ toolCalls' = Push(toolCalls, record)
  /\ inflight' = inflight \ {c}
  /\ history' = history \o Completed(c)
  /\ UNCHANGED <<pendingPromises, logs, now>>
  /\ IF execution.phase = "awaiting" /\ c.promise \in execution.waiting
       THEN IF c.fails
              THEN IF Statement.caught THEN Advance(TRUE)
                   ELSE CodeRejects(ToolMessage(c.name))
            ELSE IF execution.waiting = {c.promise} THEN Advance(TRUE)
            ELSE /\ execution' = [execution EXCEPT !.waiting = @ \ {c.promise}]
                 /\ UNCHANGED results
     ELSE IF execution.phase = "settling" /\ inflight' = {}
       THEN Returns(execution.output, NoError, {})
     ELSE UNCHANGED <<execution, results>>
  /\ SandboxUntouched

\* Settle reading the clock for the record when the promise settles
SettleStampedLate(c) == SettleWith(c, ToolCallOf([c EXCEPT !.timestamp = now]))

\* then and catch of the tracked promise: the record has the timestamp the
\* proxy took when it was called
Settle(c) == SettleWith(c, ToolCallOf(c))

\* time passes while a call is under way or the script loops
Tick ==
  /\ now < MaxTime
  /\ \/ execution.phase \in {"none", "awaiting", "settling"} /\ inflight # {}
     \/ /\ At("loop") /\ execution.sync
        /\ now - execution.started < execution.maxExecutionTime
  /\ now' = now + 1
  /\ UNCHANGED <<toolCalls, pendingPromises, logs, inflight, execution, results, history>>
  /\ SandboxUntouched

\* createToolSandbox(tools)
SandboxInit ==
  /\ input = <<add, alwaysFails, fetchData, slowFailure>>
  /\ options = EmptyObj
  /\ pc = "idle"
  /\ op = "none"
  /\ outcome = [result |-> NoOutcome, parserCalls |-> 0]
  /\ history = <<>>
  /\ SandboxUnused

SandboxNext ==
  \/ ExecuteInSandbox
  \/ RunReturn
  \/ RunThrow
  \/ RunLog
  \/ RunLoop
  \/ CallTool
  \/ CallAsyncTool
  \/ \E c \in inflight : Settle(c)
  \/ Tick

SandboxSpec == SandboxInit /\ [][SandboxNext]_vars

(***************************************************************************)
(* Vocabulary of the properties of the sandbox.                            *)
(***************************************************************************)
\* the positions of the events of one kind in the history
EventsOf(kind) == {k \in DOMAIN history : history[k].event = kind}

\* the call invoked at k has completed: it returned or threw at once, or
\* its promise has settled
HasCompleted(k) ==
  history[k].call.promise = 0 \/ \A c \in inflight : c.promise # history[k].call.promise

\* two calls that no record tells apart
Alike(c, d) == c.name = d.name /\ c.arguments = d.arguments /\ c.timestamp = d.timestamp

\* record r tells of call c: its name, its arguments, the time of its
\* invocation, and either its result or the message of its error
TellsOf(r, c) ==
  /\ r.name = c.name /\ r.arguments = c.arguments /\ r.timestamp = c.timestamp
  /\ IF c.fails
       THEN "error" \in DOMAIN r /\ r.error = ToolMessage(c.name) /\ "result" \notin DOMAIN r
       ELSE "result" \in DOMAIN r /\ r.result = ToolValue(c.name, c.arguments)
              /\ "error" \notin DOMAIN r

\* C25: every tool invocation through a proxy that has completed is recorded
\* exactly once in toolCalls with the name of the tool and the arguments
\* passed: with its result and no error when it returned or resolved, with
\* the error message and no result when it threw or rejected, in which case
\* the failure was raised again to the caller of the proxy; there is no other
\* record, and no record carries both a result and an error.
CompletedCallsRecordedOnce ==
  LET completed == {k \in EventsOf("invoke") : HasCompleted(k)}
  IN /\ Len(toolCalls) = Cardinality(completed)
     /\ \A k \in completed :
          Cardinality({i \in DOMAIN toolCalls : TellsOf(toolCalls[i], history[k].call)})
            = Cardinality({l \in completed : Alike(history[l].call, history[k].call)})
     /\ \A k \in completed :
          Cardinality({l \in EventsOf("raise") : Alike(history[l].call, history[k].call)})
            = IF history[k].call.fails
                THEN Cardinality({l \in completed : Alike(history[l].call, history[k].call)})
                ELSE 0
     /\ \A i \in DOMAIN toolCalls :
          ~("result" \in DOMAIN toolCalls[i] /\ "error" \in DOMAIN toolCalls[i])
     /\ \A n \in DOMAIN results :
          LET body == results[n].code.body
          IN (Len(body) > 0 /\ body[1].op = "call" /\ body[1].tools[1].fails
                /\ Len(body[1].tools) = 1 /\ body[1].awaited /\ ~body[1].caught)
               => results[n].error = ToolMessage(body[1].tools[1].name)

\* a call that resolved and a call that rejected are recorded while the call
\* of an earlier execution is still under way, and the code that awaited the
\* rejected call failed with its error
CompletedCallsRecordedOnceWitness ==
  /\ Len(toolCalls) = 2
  /\ "result" \in DOMAIN toolCalls[1] /\ toolCalls[1].name = "fetchData"
  /\ "error" \in DOMAIN toolCalls[2] /\ toolCalls[2].error = "Too slow"
  /\ Cardinality(inflight) = 1
  /\ Len(results) = 2 /\ results[2].error = "Too slow"

RECURSIVE CodeEnds(_, _)
\* how the code ends from statement at on, and with what, when its tools
\* do what they do: it returns, it throws, or it never ends
CodeEnds(body, at) ==
  IF at > Len(body) THEN [how |-> "returns", output |-> Undef]
  ELSE CASE body[at].op = "return" -> [how |-> "returns", output |-> body[at].value]
         [] body[at].op = "throw" -> [how |-> "throws", output |-> Undef]
         [] body[at].op = "loop" -> [how |-> "never", output |-> Undef]
         [] body[at].op = "call" ->
              IF /\ \E i \in 1..Len(body[at].tools) : body[at].tools[i].fails
                 /\ ~body[at].caught
                 /\ body[at].awaited \/ ~body[at].tools[1].async
                THEN [how |-> "throws", output |-> Undef]
                ELSE CodeEnds(body, at + 1)
         [] OTHER -> CodeEnds(body, at + 1)

\* the executed code failed: it does not compile, it throws or lets the error
\* of a tool pass, or it ran for longer than maxExecutionTime
CodeFailed(r) ==
  \/ ~r.code.valid
  \/ CodeEnds(r.code.body, 1).how # "returns"
  \/ r.ended - r.started > r.maxExecutionTime

\* C24: executeInSandbox and executeWithTools never reject: every failure of
\* the executed code (a syntax error, a runtime error, an exceeded execution
\* time, the error of a tool that the code does not catch) is returned as a
\* result with error set and output undefined, and a run that completes
\* normally returns the value the code returns as output, without error.
FailuresAreReturned ==
  \A n \in DOMAIN results :
    IF CodeFailed(results[n])
      THEN results[n].error # NoError /\ results[n].output = Undef
      ELSE /\ results[n].error = NoError
           /\ results[n].output = CodeEnds(results[n].code.body, 1).output

\* FailuresAreReturned for the executions whose code ended within its time
FailuresAreReturnedInTime ==
  \A n \in DOMAIN results :
    results[n].ended - results[n].started <= results[n].maxExecutionTime =>
      IF CodeFailed(results[n])
        THEN results[n].error # NoError /\ results[n].output = Undef
        ELSE /\ results[n].error = NoError
             /\ results[n].output = CodeEnds(results[n].code.body, 1).output

\* list s is the beginning of list t
BeginsWith(t, s) == Len(s) <= Len(t) /\ SubSeq(t, 1, Len(s)) = s

NoCallPendingOnReturn == \A n \in DOMAIN results : results[n].unsettled = {}

\* NoCallPendingOnReturn for the executions that return without error
NoCallPendingOnSuccess ==
  \A n \in DOMAIN results : results[n].error = NoError => results[n].unsettled = {}

\* the position in the history of the i-th event of a kind
Nth(kind, i) ==
  CHOOSE k \in EventsOf(kind) : Cardinality({l \in EventsOf(kind) : l <= k}) = i

\* the position in the history of the invocation of the call recorded at k
InvocationOf(k) ==
  LET invoked == {l \in EventsOf("invoke") : l < k /\ history[l].call = history[k].call}
  IN CHOOSE l \in invoked : \A m \in invoked : m <= l

\* C30 as stated: the records in toolCalls appear in the order in which the
\* calls were invoked by the code, with non-decreasing timestamps, for every
\* mix of synchronous and asynchronous tools and every order in which
\* concurrently started asynchronous calls complete.
RecordsInInvocationOrder ==
  \A i, j \in DOMAIN toolCalls :
    i < j =>
      /\ toolCalls[i].timestamp <= toolCalls[j].timestamp
      /\ InvocationOf(Nth("record", i)) < InvocationOf(Nth("record", j))

\* C30: the records in toolCalls appear in the order in which the calls
\* completed, each with the timestamp of its invocation: the record of a
\* synchronous call is pushed at its invocation, that of an asynchronous call
\* when its promise settles.  Two records are in invocation order, with
\* non-decreasing timestamps, whenever the later call was invoked after the
\* earlier one had completed.
RecordsInCompletionOrder ==
  /\ Len(toolCalls) = Cardinality(EventsOf("record"))
  /\ \A i \in DOMAIN toolCalls : TellsOf(toolCalls[i], history[Nth("record", i)].call)
  /\ \A k \in EventsOf("record") :
       history[k].call.promise = 0 => InvocationOf(k) = k - 1
  /\ \A i, j \in DOMAIN toolCalls :
       (i < j /\ InvocationOf(Nth("record", j)) > Nth("record", i)) =>
         /\ toolCalls[i].timestamp <= toolCalls[j].timestamp
         /\ InvocationOf(Nth("record", i)) < InvocationOf(Nth("record", j))

\* fetchData({ id: 1 }) was called first and not awaited; fetchData({ id: 2 })
\* completed before it and add was called and recorded a clock reading later:
\* the record of the first call comes last, with the earliest timestamp
RecordsInCompletionOrderWitness ==
  /\ Len(toolCalls) = 3
  /\ toolCalls[1].arguments = Id(2) /\ toolCalls[1].timestamp = 0
  /\ toolCalls[2].name = "add" /\ toolCalls[2].timestamp = 1
  /\ toolCalls[3].arguments = Id(1) /\ toolCalls[3].timestamp = 0
  /\ InvocationOf(Nth("record", 3)) < InvocationOf(Nth("record", 1))

====
